---- MODULE Spec2Model ----
(***************************************************************************)
(* KitabiAI document-structure extraction: language routing, the section   *)
(* extraction strategies (native outline, pattern headings, Arabic keyword  *)
(* scan, Arabic layout tables, heading roles) and page-range fixing.        *)
(*                                                                         *)
(* Three specifications share the operators below:                         *)
(*   SpecRanges : the section builders and _fix_page_ranges applied to      *)
(*                bounded lists of entries, bookmarks, matches, headings    *)
(*   SpecParse  : the Arabic TOC text and table-cell parsers applied to     *)
(*                bounded code-point strings                                *)
(*   Spec       : LanguageDetector.detect followed by TocExtractor.extract  *)
(*                and the upload route, run twice on one document          *)
(***************************************************************************)
EXTENDS Integers, Sequences, FiniteSets, TLC

VARIABLES
    pc,        \* position of the flow being modelled
    input,     \* the arguments / document the flow was started with
    parsed,    \* entries read by the TOC parsers
    cleaned,   \* result of the last _clean_entries call of the flow
    report,    \* the SectionsReport produced so far (NoReport before)
    detection, \* what LanguageDetector.detect returned last
    detector,  \* the lazily created members of the LanguageDetector
    calls,     \* the backends and strategies run so far, in order
    first_run  \* what the first of two runs on the document returned

vars == <<pc, input, parsed, cleaned, report, detection, detector, calls, first_run>>

NoReport == [bookmarks_found |-> FALSE, sections |-> <<>>, strategy |-> "none"]
NoEntries == [lines |-> <<>>, cells |-> <<>>, same_line |-> <<>>]
NoDetection == [language |-> "none", text |-> <<>>, azure_result |-> FALSE]
(* LanguageDetector.__init__: _fasttext_model and _azure_client are None;   *)
(* the upload route and the TocExtractor each own a LanguageDetector        *)
NewDetector == [fasttext_model |-> FALSE, azure_client |-> FALSE]
NewDetectors == [upload |-> NewDetector, extractor |-> NewDetector]

unused_by_builders == <<parsed, detection, detector, calls, first_run>>

----------------------------------------------------------------------------
(* Program constants                                                        *)

MIN_BOOKMARKS_OK == 4
MIN_ARABIC_ENTRIES == 5
MIN_SECTIONS == 3
MAX_PAGE_JUMP == 500
LAST_SECTION_PLACEHOLDER == 100
PAGE_END_SENTINEL == 9999

----------------------------------------------------------------------------
(* Generic helpers                                                          *)

Min(a, b) == IF a < b THEN a ELSE b
Max(a, b) == IF a > b THEN a ELSE b

SeqsBetween(S, lo, hi) == UNION {[1..n -> S] : n \in lo..hi}

Pages(es) == [i \in 1..Len(es) |-> es[i].page]

SectionInfo(id, title, level, ps, pe) ==
    [section_id |-> id, title |-> title, level |-> level,
     page_start |-> ps, page_end |-> pe]

SectionsReport(found, sections, strategy) ==
    [bookmarks_found |-> found, sections |-> sections, strategy |-> strategy]

----------------------------------------------------------------------------
(* ArabicTocExtractor._clean_entries                                        *)

RECURSIVE clean_loop(_, _, _, _)
clean_loop(entries, i, last_page, acc) ==
    IF i > Len(entries) THEN acc
    ELSE LET page == entries[i].page IN
         IF page < last_page
            THEN clean_loop(entries, i + 1, last_page, acc)
         ELSE IF last_page > 0 /\ (page - last_page) > MAX_PAGE_JUMP
            THEN clean_loop(entries, i + 1, last_page, acc)
         ELSE clean_loop(entries, i + 1, page, Append(acc, entries[i]))

(* _clean_entries without the backwards-page test                           *)
RECURSIVE clean_loop_keeps_backwards(_, _, _, _)
clean_loop_keeps_backwards(entries, i, last_page, acc) ==
    IF i > Len(entries) THEN acc
    ELSE LET page == entries[i].page IN
         IF last_page > 0 /\ (page - last_page) > MAX_PAGE_JUMP
            THEN clean_loop_keeps_backwards(entries, i + 1, last_page, acc)
         ELSE clean_loop_keeps_backwards(entries, i + 1, page,
                                         Append(acc, entries[i]))

clean_entries_keeps_backwards(entries) ==
    IF entries = <<>> THEN <<>>
    ELSE clean_loop_keeps_backwards(entries, 1, 0, <<>>)

(* a cleaning that stops at the first entry it rejects                      *)
RECURSIVE clean_loop_truncates(_, _, _, _)
clean_loop_truncates(entries, i, last_page, acc) ==
    IF i > Len(entries) THEN acc
    ELSE LET page == entries[i].page IN
         IF page < last_page THEN acc
         ELSE IF last_page > 0 /\ (page - last_page) > MAX_PAGE_JUMP THEN acc
         ELSE clean_loop_truncates(entries, i + 1, page,
                                   Append(acc, entries[i]))

clean_entries_truncates(entries) ==
    IF entries = <<>> THEN <<>> ELSE clean_loop_truncates(entries, 1, 0, <<>>)

clean_entries(entries) ==
    IF entries = <<>> THEN <<>> ELSE clean_loop(entries, 1, 0, <<>>)

(* _create_sections with each section running up to the page on which the   *)
(* next entry starts                                                        *)
create_sections_ends_on_next_start(entries, page_offset) ==
    [idx \in 1..Len(entries) |->
        LET page_start == entries[idx].page + page_offset
            raw_end == IF idx + 1 <= Len(entries)
                          THEN entries[idx + 1].page + page_offset
                          ELSE page_start + LAST_SECTION_PLACEHOLDER
        IN SectionInfo(<<idx>>, entries[idx].title, 1,
                       page_start, Max(page_start, raw_end))]

(* ArabicTocExtractor._create_sections                                      *)
create_sections(entries, page_offset) ==
    [idx \in 1..Len(entries) |->
        LET page_start == entries[idx].page + page_offset
            raw_end == IF idx + 1 <= Len(entries)
                          THEN (entries[idx + 1].page + page_offset) - 1
                          ELSE page_start + LAST_SECTION_PLACEHOLDER
        IN SectionInfo(<<idx>>, entries[idx].title, 1,
                       page_start, Max(page_start, raw_end))]

(* ArabicTocExtractor._fallback_section                                     *)
arabic_fallback_section ==
    SectionsReport(FALSE,
        <<SectionInfo(<<1>>, "Full Book", 1, 1, PAGE_END_SENTINEL)>>,
        "fallback")

(* a fallback that returns no section at all                                *)
fallback_section_without_sections(title, num_pages) ==
    SectionsReport(FALSE, <<>>, "fallback")

(* TocExtractor._fallback_section, and the fallback of                      *)
(* EnglishTocExtractor.extract and TocGenerator._fallback_section           *)
fallback_section(title, num_pages) ==
    SectionsReport(FALSE,
        <<SectionInfo(<<1>>, title, 1, 1, num_pages)>>, "fallback")

(* a fix that caps page_end at num_pages but leaves the 9999 placeholder    *)
fix_page_ranges_keeps_sentinel(rep, num_pages) ==
    [rep EXCEPT !.sections =
        [i \in 1..Len(rep.sections) |->
            IF rep.sections[i].page_end > num_pages
               /\ rep.sections[i].page_end # PAGE_END_SENTINEL
            THEN [rep.sections[i] EXCEPT !.page_end = num_pages]
            ELSE rep.sections[i]]]

(* TocExtractor._fix_page_ranges, and the loop of the upload route          *)
fix_page_ranges(rep, num_pages) ==
    [rep EXCEPT !.sections =
        [i \in 1..Len(rep.sections) |->
            IF rep.sections[i].page_end > num_pages
               \/ rep.sections[i].page_end = PAGE_END_SENTINEL
            THEN [rep.sections[i] EXCEPT !.page_end = num_pages]
            ELSE rep.sections[i]]]

----------------------------------------------------------------------------
(* TocExtractor._extract_bookmarks: raw outline items (level, title, page)  *)
(* with the page clamped into 1..page_count                                 *)
extract_bookmarks(toc, num_pages) ==
    [i \in 1..Len(toc) |->
        [level |-> toc[i].level, title |-> toc[i].title,
         page |-> Max(1, Min(num_pages, toc[i].page))]]

(* counters that keep the deeper levels when a shallower entry is visited   *)
RECURSIVE bookmark_counters_keeps_deeper(_, _)
bookmark_counters_keeps_deeper(bookmarks, idx) ==
    IF idx = 0 THEN <<>>
    ELSE LET prev == bookmark_counters_keeps_deeper(bookmarks, idx - 1)
             level == bookmarks[idx].level
             ext == IF Len(prev) < level
                       THEN prev \o [k \in 1..(level - Len(prev)) |-> 0]
                       ELSE prev
         IN [ext EXCEPT ![level] = @ + 1]

(* counters after visiting bookmarks[1..idx] (the loop's running list)      *)
RECURSIVE bookmark_counters(_, _)
bookmark_counters(bookmarks, idx) ==
    IF idx = 0 THEN <<>>
    ELSE LET prev == bookmark_counters(bookmarks, idx - 1)
             level == bookmarks[idx].level
             ext == IF Len(prev) < level
                       THEN prev \o [k \in 1..(level - Len(prev)) |-> 0]
                       ELSE prev
             cut == SubSeq(ext, 1, level)
         IN [cut EXCEPT ![level] = @ + 1]

(* page_end of bookmarks[idx]: up to the next entry at same/higher level    *)
bookmark_page_end(bookmarks, idx, num_pages) ==
    LET later == {j \in (idx + 1)..Len(bookmarks) :
                     bookmarks[j].level <= bookmarks[idx].level}
    IN IF later = {} THEN num_pages
       ELSE LET j == CHOOSE k \in later : \A m \in later : k <= m
            IN Max(bookmarks[idx].page, bookmarks[j].page - 1)

(* TocExtractor._sections_from_bookmarks                                    *)
sections_from_bookmarks(bookmarks, num_pages) ==
    [idx \in 1..Len(bookmarks) |->
        SectionInfo(bookmark_counters(bookmarks, idx), bookmarks[idx].title,
                    bookmarks[idx].level, bookmarks[idx].page,
                    bookmark_page_end(bookmarks, idx, num_pages))]

----------------------------------------------------------------------------
(* EnglishTocExtractor: a regex match is [number, title, char_pos], number  *)
(* being [parts |-> <<1, 2>>, alpha |-> <<>>] for "1.2" and                 *)
(* [parts |-> <<>>, alpha |-> <<73, 86>>] for the roman or letter token IV  *)

MIN_TITLE_LEN == 3
MAX_TITLE_LEN == 200
DEDUPE_TITLE_LEN == 50

(* EnglishTocExtractor._determine_level: number of dots + 1                 *)
determine_level(number) ==
    IF Len(number.parts) > 1 THEN Len(number.parts) ELSE 1

(* EnglishTocExtractor._parse_section_number                                *)
parse_section_number(number) ==
    IF number.alpha = <<>> THEN number.parts ELSE <<0>>

(* Python tuple order on tuples of integers                                 *)
RECURSIVE TupleLess(_, _)
TupleLess(a, b) ==
    IF a = <<>> THEN b # <<>>
    ELSE IF b = <<>> THEN FALSE
    ELSE IF Head(a) # Head(b) THEN Head(a) < Head(b)
    ELSE TupleLess(Tail(a), Tail(b))

(* list.sort with a key: stable, so equal keys keep their order; the keys   *)
(* are tuples of integers compared as Python compares tuples                *)
RECURSIVE StableInsert(_, _)
StableInsert(sorted, x) ==
    IF sorted = <<>> THEN <<x>>
    ELSE IF TupleLess(x.key, Head(sorted).key) THEN <<x>> \o sorted
    ELSE <<Head(sorted)>> \o StableInsert(Tail(sorted), x)

RECURSIVE StableSortKeyed(_)
StableSortKeyed(s) ==
    IF s = <<>> THEN <<>>
    ELSE StableInsert(StableSortKeyed(SubSeq(s, 1, Len(s) - 1)), s[Len(s)])

StableSort(s, Key(_)) ==
    LET keyed == [i \in 1..Len(s) |-> [key |-> Key(s[i]), val |-> s[i]]]
        sorted == StableSortKeyed(keyed)
    IN [i \in 1..Len(sorted) |-> sorted[i].val]

(* the sort key (page, parsed number) of _extract_sections                  *)
MatchKey(m) == <<m.page>> \o parse_section_number(m.number)

(* estimated page of a match at char_pos in a text of text_len characters;  *)
(* in every input text_len is a power of two or char_pos * num_pages is 0   *)
(* or no multiple of text_len, so that rounding in the float quotient and   *)
(* product of the source cannot move int() off the integer quotient         *)
estimated_page(char_pos, text_len, num_pages) ==
    Max(1, Min(num_pages, ((char_pos * num_pages) \div text_len) + 1))

Take(s, n) == SubSeq(s, 1, Min(n, Len(s)))

(* the matches kept by the title-length test, with their estimated page     *)
pattern_matches(found, text_len, num_pages) ==
    LET keep == SelectSeq(found,
                   LAMBDA m : ~(Len(m.title) < MIN_TITLE_LEN
                                \/ Len(m.title) > MAX_TITLE_LEN))
    IN [i \in 1..Len(keep) |->
           [number |-> keep[i].number, title |-> keep[i].title,
            page |-> estimated_page(keep[i].char_pos, text_len, num_pages)]]

(* duplicates removed, first occurrence kept                                *)
unique_matches(matches) ==
    LET key(m) == <<m.number, Take(m.title, DEDUPE_TITLE_LEN)>>
        idx == {i \in 1..Len(matches) :
                   \A j \in 1..(i - 1) : key(matches[j]) # key(matches[i])}
        RECURSIVE pick(_)
        pick(i) == IF i > Len(matches) THEN <<>>
                   ELSE IF i \in idx THEN <<matches[i]>> \o pick(i + 1)
                   ELSE pick(i + 1)
    IN pick(1)

(* EnglishTocExtractor._extract_sections                                    *)
extract_sections(found, text_len, num_pages) ==
    LET matches == pattern_matches(found, text_len, num_pages)
        sorted == StableSort(unique_matches(matches), MatchKey)
    IN IF matches = <<>> THEN <<>>
       ELSE [i \in 1..Len(sorted) |->
               LET page_start == sorted[i].page
                   raw_end == IF i + 1 <= Len(sorted)
                                 THEN sorted[i + 1].page - 1
                                 ELSE num_pages
               IN SectionInfo(sorted[i].number, sorted[i].title,
                              determine_level(sorted[i].number),
                              page_start, Max(page_start, raw_end))]

(* EnglishTocExtractor.extract                                              *)
english_extract(found, text_len, num_pages) ==
    LET sections == extract_sections(found, text_len, num_pages)
    IN IF Len(sections) >= MIN_SECTIONS
          THEN SectionsReport(FALSE, sections, "english_pattern")
          ELSE fallback_section("Document", num_pages)

----------------------------------------------------------------------------
(* TocGenerator: a paragraph of the OCR result is                           *)
(* [role, title, numeric, height, font_size, length, page, offset]; height  *)
(* is in thousandths of the page; height, font_size and page are -1 when    *)
(* the OCR result does not report them, offset is 0 when it has no span     *)

MIN_HEADING_LENGTH == 3
MAX_HEADING_LENGTH == 200
MIN_HEADING_FONT_SIZE == 16
MIN_HEIGHT == 25

HEADING_ROLES == {"title", "sectionHeading"}

HeadingKept(p) ==
    /\ p.role \in HEADING_ROLES
    /\ ~p.numeric
    /\ ~(p.page # -1 /\ p.height # -1 /\ p.height < MIN_HEIGHT)
    /\ ~(p.font_size # -1 /\ p.font_size < MIN_HEADING_FONT_SIZE)
    /\ ~(p.length < MIN_HEADING_LENGTH)
    /\ ~(p.length > MAX_HEADING_LENGTH)
    /\ p.page # -1

(* the sort key (page, offset or 0) of _extract_headings                    *)
HeadingKey(h) == <<h.page, h.offset>>

(* TocGenerator._extract_headings                                           *)
extract_headings(paragraphs) ==
    StableSort(SelectSeq(paragraphs, HeadingKept), HeadingKey)

(* sections that end on the page of the next heading                        *)
create_sections_from_headings_to_next(headings, num_pages) ==
    [idx \in 1..Len(headings) |->
        SectionInfo(<<idx>>, headings[idx].title,
                    IF headings[idx].role = "title" THEN 1 ELSE 2,
                    headings[idx].page,
                    IF idx + 1 <= Len(headings)
                       THEN Max(headings[idx].page, headings[idx + 1].page)
                       ELSE Max(headings[idx].page, num_pages))]

(* TocGenerator._create_sections_from_headings                              *)
create_sections_from_headings(headings, num_pages) ==
    [idx \in 1..Len(headings) |->
        LET page_start == headings[idx].page
            raw_end == IF idx + 1 <= Len(headings)
                          THEN IF headings[idx + 1].page = page_start
                                  THEN page_start
                                  ELSE headings[idx + 1].page - 1
                          ELSE num_pages
        IN SectionInfo(<<idx>>, headings[idx].title,
                       IF headings[idx].role = "title" THEN 1 ELSE 2,
                       page_start, Max(page_start, raw_end))]

(* TocGenerator.generate; has_result is FALSE for a missing azure_result    *)
generate(has_result, paragraphs, num_pages) ==
    IF ~has_result THEN fallback_section("Full Book", num_pages)
    ELSE IF paragraphs = <<>> THEN fallback_section("Full Book", num_pages)
    ELSE LET headings == extract_headings(paragraphs)
             sections == create_sections_from_headings(headings, num_pages)
         IN IF headings = <<>> THEN fallback_section("Full Book", num_pages)
            ELSE IF sections = <<>> THEN fallback_section("Full Book", num_pages)
            ELSE SectionsReport(TRUE, sections, "heading_roles")

----------------------------------------------------------------------------
(* Text is a sequence of Unicode code points                                *)

NL == 10
FF == 12
HYPHEN == 45
ASCII_ZERO == 48
ARABIC_INDIC_ZERO == 1632
EXTENDED_ARABIC_INDIC_ZERO == 1776
WAW == 1608
MIN_PAGE == 1
MIN_LINE_LEN == 3

(* str.isspace() / regex \s: the characters str.strip() removes             *)
Whitespace ==
    (9..13) \cup (28..32) \cup {133, 160, 5760} \cup (8192..8202)
            \cup {8232, 8233, 8239, 8287, 12288}

AsciiDigits == ASCII_ZERO..(ASCII_ZERO + 9)
ArabicIndicDigits == ARABIC_INDIC_ZERO..(ARABIC_INDIC_ZERO + 9)
ExtendedArabicIndicDigits ==
    EXTENDED_ARABIC_INDIC_ZERO..(EXTENDED_ARABIC_INDIC_ZERO + 9)

(* regex \d, str.isdigit() and int() accept every Unicode decimal digit     *)
IsDigit(c) ==
    c \in AsciiDigits \cup ArabicIndicDigits \cup ExtendedArabicIndicDigits

DigitValue(c) ==
    IF c \in AsciiDigits THEN c - ASCII_ZERO
    ELSE IF c \in ArabicIndicDigits THEN c - ARABIC_INDIC_ZERO
    ELSE c - EXTENDED_ARABIC_INDIC_ZERO

AllDigits(s) == s # <<>> /\ \A i \in 1..Len(s) : IsDigit(s[i])

(* the superscript digits U+00B2, U+00B3 and U+00B9: str.isdigit() accepts *)
(* them, int() raises ValueError on them                                    *)
SuperscriptDigits == {178, 179, 185}

(* str.isdigit()                                                            *)
str_isdigit(s) ==
    s # <<>> /\ \A i \in 1..Len(s) : IsDigit(s[i]) \/ s[i] \in SuperscriptDigits

(* int(s) of a digit string                                                 *)
RECURSIVE IntOf(_)
IntOf(s) ==
    IF s = <<>> THEN 0
    ELSE IntOf(SubSeq(s, 1, Len(s) - 1)) * 10 + DigitValue(s[Len(s)])

(* index of the first character from i on that is no whitespace            *)
RECURSIVE FirstKept(_, _)
FirstKept(s, i) ==
    IF i > Len(s) THEN i
    ELSE IF s[i] \notin Whitespace THEN i
    ELSE FirstKept(s, i + 1)

(* index of the last character up to i that is no whitespace                *)
RECURSIVE LastKept(_, _)
LastKept(s, i) ==
    IF i < 1 THEN i
    ELSE IF s[i] \notin Whitespace THEN i
    ELSE LastKept(s, i - 1)

(* str.strip()                                                              *)
Strip(s) == SubSeq(s, FirstKept(s, 1), LastKept(s, Len(s)))

(* first index from i on that holds sep (Len + 1 if none)                   *)
RECURSIVE IndexOf(_, _, _)
IndexOf(s, sep, i) ==
    IF i > Len(s) THEN i
    ELSE IF s[i] = sep THEN i
    ELSE IndexOf(s, sep, i + 1)

(* str.split(sep) for a one-character separator, from index i on            *)
RECURSIVE SplitFrom(_, _, _)
SplitFrom(s, sep, i) ==
    LET k == IndexOf(s, sep, i)
    IN IF k > Len(s) THEN <<SubSeq(s, i, Len(s))>>
       ELSE <<SubSeq(s, i, k - 1)>> \o SplitFrom(s, sep, k + 1)

SplitOn(s, sep) == SplitFrom(s, sep, 1)

StartsWith(s, w) == Len(s) >= Len(w) /\ SubSeq(s, 1, Len(w)) = w

(* ArabicTocExtractor._normalize_arabic_digits with the translation table   *)
(* shifted by one digit                                                     *)
normalize_arabic_digits_shifted(text) ==
    [i \in 1..Len(text) |->
        IF text[i] \in ArabicIndicDigits
           THEN ASCII_ZERO + ((text[i] - ARABIC_INDIC_ZERO + 1) % 10)
           ELSE text[i]]

(* ArabicTocExtractor._normalize_arabic_digits: U+0660..U+0669 to 0..9      *)
normalize_arabic_digits(text) ==
    [i \in 1..Len(text) |->
        IF text[i] \in ArabicIndicDigits
           THEN text[i] - ARABIC_INDIC_ZERO + ASCII_ZERO
           ELSE text[i]]

(* the words of the header pattern ^(...)\s*\d+$ of _is_header_footer:      *)
(* "al-fasl", "al-bab", "Chapter", "Part"                                   *)
HeaderWords ==
    {<<1575, 1604, 1601, 1589, 1604>>, <<1575, 1604, 1576, 1575, 1576>>,
     <<67, 104, 97, 112, 116, 101, 114>>, <<80, 97, 114, 116>>}

(* \s*\d+$ matches all of s                                                 *)
SpacesThenDigits(s) ==
    \E k \in 0..(Len(s) - 1) :
        /\ \A i \in 1..k : s[i] \in Whitespace
        /\ AllDigits(SubSeq(s, k + 1, Len(s)))

(* ArabicTocExtractor._is_header_footer                                     *)
is_header_footer(line) ==
    \/ Len(line) < MIN_LINE_LEN
    \/ AllDigits(normalize_arabic_digits(line))
    \/ \E w \in HeaderWords :
          StartsWith(line, w)
          /\ SpacesThenDigits(SubSeq(line, Len(w) + 1, Len(line)))

(* group 1 of ^(\d+)(?:-\d+)?$ on s, <<>> when it does not match            *)
page_number_match(s) ==
    IF AllDigits(s) THEN s
    ELSE LET at == {k \in 2..(Len(s) - 1) :
                       /\ s[k] = HYPHEN
                       /\ AllDigits(SubSeq(s, 1, k - 1))
                       /\ AllDigits(SubSeq(s, k + 1, Len(s)))}
         IN IF at = {} THEN <<>>
            ELSE SubSeq(s, 1, (CHOOSE k \in at : TRUE) - 1)

(* the while loop of _parse_toc_entries from line i on                      *)
RECURSIVE parse_loop(_, _, _)
parse_loop(lines, i, entries) ==
    IF i > Len(lines) THEN entries
    ELSE LET line == Strip(lines[i])
             next_line == Strip(lines[i + 1])
             page_match ==
                 page_number_match(normalize_arabic_digits(next_line))
             page_num == IntOf(page_match)
         IN IF line = <<>> THEN parse_loop(lines, i + 1, entries)
            ELSE IF Len(line) < MIN_LINE_LEN \/ is_header_footer(line)
               THEN parse_loop(lines, i + 1, entries)
            ELSE IF i + 1 <= Len(lines) /\ page_match # <<>>
                    /\ MIN_PAGE <= page_num /\ page_num <= PAGE_END_SENTINEL
               THEN parse_loop(lines, i + 2,
                        Append(entries, [title |-> line, page |-> page_num]))
            ELSE parse_loop(lines, i + 1, entries)

(* a parser that also reads a title and its page number from one line:      *)
(* the trailing digits of a line are its page, what precedes them without   *)
(* the leader dots is its title                                             *)
RECURSIVE parse_loop_same_line(_, _, _)
parse_loop_same_line(lines, i, entries) ==
    IF i > Len(lines) THEN entries
    ELSE LET line == normalize_arabic_digits(Strip(lines[i]))
             runs == {n \in 1..Len(line) :
                         AllDigits(SubSeq(line, Len(line) - n + 1, Len(line)))}
             digits == CHOOSE n \in runs \cup {0} :
                          \A m \in runs : m <= n
             before == SubSeq(line, 1, Len(line) - digits)
             leaders == {n \in 0..Len(before) :
                           \A k \in (Len(before) - n + 1)..Len(before) :
                              before[k] \in Whitespace \cup {46}}
             leader == CHOOSE n \in leaders : \A m \in leaders : m <= n
             title == SubSeq(Strip(lines[i]), 1, Len(before) - leader)
             page_num == IntOf(SubSeq(line, Len(line) - digits + 1, Len(line)))
         IN IF /\ digits > 0 /\ leader > 0 /\ Len(title) >= MIN_LINE_LEN
               /\ MIN_PAGE <= page_num /\ page_num <= PAGE_END_SENTINEL
               THEN parse_loop_same_line(lines, i + 1,
                        Append(entries, [title |-> title, page |-> page_num]))
            ELSE IF i + 1 <= Len(lines)
                    /\ parse_loop(<<lines[i], lines[i + 1]>>, 1, <<>>) # <<>>
               THEN parse_loop_same_line(lines, i + 2,
                        entries \o parse_loop(<<lines[i], lines[i + 1]>>, 1, <<>>))
            ELSE parse_loop_same_line(lines, i + 1, entries)

parse_toc_entries_same_line(toc_text) ==
    parse_loop_same_line(SplitOn(toc_text, NL), 1, <<>>)

(* ArabicTocExtractor._parse_toc_entries                                    *)
parse_toc_entries(toc_text) == parse_loop(SplitOn(toc_text, NL), 1, <<>>)

(* the entry _extract_from_table reads from a page cell and the title cell  *)
(* before it: <<>> or one entry                                             *)
table_cell_entry(title_content, cell_content) ==
    LET content == Strip(cell_content)
        title == Strip(title_content)
        normalized == normalize_arabic_digits(content)
        normalized_page ==
            IF \E i \in 1..Len(normalized) : normalized[i] = WAW
               THEN Strip(SplitOn(normalized, WAW)[1])
               ELSE normalized
        page_num == IntOf(normalized_page)
    IN IF content # <<>> /\ title # <<>> /\ AllDigits(normalized_page)
          /\ MIN_PAGE <= page_num /\ page_num <= PAGE_END_SENTINEL
       THEN <<[title |-> title, page |-> page_num]>>
       ELSE <<>>

(* int(normalized_page) of _extract_from_table raises ValueError: the page  *)
(* text passed isdigit() and is no decimal number                           *)
table_cell_raises(title_content, cell_content) ==
    LET content == Strip(cell_content)
        title == Strip(title_content)
        normalized == normalize_arabic_digits(content)
        normalized_page ==
            IF \E i \in 1..Len(normalized) : normalized[i] = WAW
               THEN Strip(SplitOn(normalized, WAW)[1])
               ELSE normalized
    IN content # <<>> /\ title # <<>> /\ str_isdigit(normalized_page)
          /\ ~AllDigits(normalized_page)

----------------------------------------------------------------------------
(* EnglishTocExtractor.PATTERNS matched on code points (MULTILINE and       *)
(* IGNORECASE): every pattern starts at a line start and ends at a line end *)

COLON == 58
FULL_STOP == 46
EN_DASH == 8211

(* the separator class of the patterns: whitespace, colon, full stop, en    *)
(* dash, hyphen                                                             *)
Punctuation == {COLON, FULL_STOP, EN_DASH, HYPHEN}
Separators == Whitespace \cup Punctuation

UpperCase == 65..90
LowerCase == 97..122
Lower(c) == IF c \in UpperCase THEN c + 32 ELSE c

AllDecimalDigits ==
    AsciiDigits \cup ArabicIndicDigits \cup ExtendedArabicIndicDigits

(* the token classes of Part and Appendix under IGNORECASE                  *)
RomanOrDigit ==
    AllDecimalDigits \cup {73, 86, 88, 76, 67, 68, 77}
                     \cup {105, 118, 120, 108, 99, 100, 109}
LetterOrDigit == AllDecimalDigits \cup UpperCase \cup LowerCase

(* "chapter", "section", "part", "appendix"                                 *)
KwChapter == <<99, 104, 97, 112, 116, 101, 114>>
KwSection == <<115, 101, 99, 116, 105, 111, 110>>
KwPart == <<112, 97, 114, 116>>
KwAppendix == <<97, 112, 112, 101, 110, 100, 105, 120>>

(* first index from q on whose character is not in S (Len + 1 if none)      *)
RECURSIVE RunEnd(_, _, _)
RunEnd(text, q, S) ==
    IF q > Len(text) THEN q
    ELSE IF text[q] \notin S THEN q
    ELSE RunEnd(text, q + 1, S)

(* index of the newline that ends the line of position t (Len + 1 if none)  *)
RECURSIVE LineEnd(_, _)
LineEnd(text, t) ==
    IF t > Len(text) THEN t
    ELSE IF text[t] = NL THEN t
    ELSE LineEnd(text, t + 1)

HasKeyword(text, p, kw) ==
    /\ p + Len(kw) - 1 <= Len(text)
    /\ \A i \in 1..Len(kw) : Lower(text[p + i - 1]) = kw[i]

NoMatch == [start |-> 0, number |-> <<>>, title |-> <<>>, last |-> 0]

(* the match starting at p whose group 2 is text[a..b-1] and whose group 3  *)
(* runs from t to the end of t's line                                       *)
MatchAt(text, p, a, b, t) ==
    [start |-> p, number |-> SubSeq(text, a, b - 1),
     title |-> Strip(SubSeq(text, t, LineEnd(text, t) - 1)),
     last |-> LineEnd(text, t)]

(* PATTERNS[0], [1], [4], [5] at line start p: keyword, whitespace, token,   *)
(* separators, title. A separator run that reaches the end of the text      *)
(* gives its last character that is no newline back to the title            *)
keyword_match(text, p, kw, token) ==
    LET k == p + Len(kw)
        a == RunEnd(text, k, Whitespace)
        b == RunEnd(text, a, token)
        t == RunEnd(text, b, Separators)
        spare == {i \in (b + 1)..Len(text) : text[i] # NL}
    IN IF ~(HasKeyword(text, p, kw) /\ a > k /\ b > a /\ t > b) THEN NoMatch
       ELSE IF t <= Len(text) THEN MatchAt(text, p, a, b, t)
       ELSE IF spare # {}
          THEN MatchAt(text, p, a, b,
                       CHOOSE i \in spare : \A j \in spare : i >= j)
       ELSE NoMatch

(* the ends of a dotted number (digits, then any number of .digits) whose   *)
(* first digit run ends before q, shortest first                            *)
RECURSIVE dotted_ends(_, _)
dotted_ends(text, q) ==
    IF q + 1 <= Len(text) /\ text[q] = FULL_STOP
       /\ text[q + 1] \in AllDecimalDigits
    THEN <<q>> \o dotted_ends(text, RunEnd(text, q + 1, AllDecimalDigits))
    ELSE <<q>>

(* where group 3 starts when optional whitespace, one separator, optional  *)
(* whitespace and a non-empty rest of line follow from q on, else 0         *)
title_start(text, q) ==
    LET s == RunEnd(text, q, Whitespace)
        t == RunEnd(text, s + 1, Whitespace)
        spare == {i \in (Min(s, Len(text)) + 1)..Len(text) : text[i] # NL}
        blank == {i \in (q + 1)..Len(text) : text[i] # NL}
    IN IF s <= Len(text) /\ text[s] \in Punctuation /\ t <= Len(text) THEN t
       ELSE IF s <= Len(text) /\ text[s] \in Punctuation /\ spare # {}
          THEN CHOOSE i \in spare : \A j \in spare : i >= j
       ELSE IF s > q /\ s <= Len(text) THEN s
       ELSE IF s > Len(text) /\ blank # {}
          THEN CHOOSE i \in blank : \A j \in blank : i >= j
       ELSE 0

(* PATTERNS[2] and, after the keyword and whitespace, PATTERNS[3] at line   *)
(* start p: a dotted number, one separator within optional whitespace and   *)
(* the title; the longest number for which the rest matches                 *)
numbered_match(text, p, kw) ==
    LET k == p + Len(kw)
        a == IF kw = <<>> THEN k ELSE RunEnd(text, k, Whitespace)
        d == RunEnd(text, a, AllDecimalDigits)
        ends == dotted_ends(text, d)
        good == {i \in 1..Len(ends) : title_start(text, ends[i]) # 0}
        best == CHOOSE i \in good : \A j \in good : i >= j
    IN IF HasKeyword(text, p, kw) /\ (kw = <<>> \/ a > k) /\ d > a
          /\ good # {}
          THEN MatchAt(text, p, a, ends[best], title_start(text, ends[best]))
          ELSE NoMatch

(* the match of PATTERNS[n] at line start p                                 *)
pattern_match(text, p, n) ==
    IF n \in {1, 2} THEN keyword_match(text, p, KwChapter, AllDecimalDigits)
    ELSE IF n = 3 THEN numbered_match(text, p, <<>>)
    ELSE IF n = 4 THEN numbered_match(text, p, KwSection)
    ELSE IF n = 5 THEN keyword_match(text, p, KwPart, RomanOrDigit)
    ELSE keyword_match(text, p, KwAppendix, LetterOrDigit)

(* pattern.finditer(text) from line start p on                              *)
RECURSIVE finditer(_, _, _)
finditer(text, p, n) ==
    IF p > Len(text) THEN <<>>
    ELSE LET from(m) ==
                 IF m.start # 0 THEN <<m>> \o finditer(text, m.last + 1, n)
                 ELSE finditer(text, LineEnd(text, p) + 1, n)
         IN from(pattern_match(text, p, n))

(* group 2 as a section number: its dot-separated integers, or the token    *)
(* itself when int() rejects it                                             *)
section_number(token) ==
    LET parts == SplitOn(token, FULL_STOP)
    IN IF \A i \in 1..Len(parts) : AllDigits(parts[i])
          THEN [parts |-> [i \in 1..Len(parts) |-> IntOf(parts[i])],
                alpha |-> <<>>]
          ELSE [parts |-> <<>>, alpha |-> token]

NumPatterns == 6

(* the matches of all patterns in the order _extract_sections visits them   *)
RECURSIVE found_matches(_, _)
found_matches(text, n) ==
    IF n > NumPatterns THEN <<>>
    ELSE LET found(ms) ==
                 [i \in 1..Len(ms) |->
                     [number |-> section_number(ms[i].number),
                      title |-> ms[i].title, char_pos |-> ms[i].start - 1]]
         IN found(finditer(text, 1, n)) \o found_matches(text, n + 1)

----------------------------------------------------------------------------
(* ArabicTocExtractor on code points                                        *)

(* "al-muhtawayat", "fihris", "jadwal", "al-mawdu'at", "muhtawayat          *)
(* al-kitab", "fahrasa" and the three words that may follow it              *)
AlMuhtawayat == <<1575, 1604, 1605, 1581, 1578, 1608, 1610, 1575, 1578>>
Fihris == <<1601, 1607, 1585, 1587>>
Jadwal == <<1580, 1583, 1608, 1604>>
AlMawduat == <<1575, 1604, 1605, 1608, 1590, 1608, 1593, 1575, 1578>>
MuhtawayatAlKitab ==
    <<1605, 1581, 1578, 1608, 1610, 1575, 1578, 32,
      1575, 1604, 1603, 1578, 1575, 1576>>
Fahrasa == Fihris \o <<1577>>
FahrasaObjects ==
    {<<1575, 1604, 1603, 1578, 1576>>,
     <<1575, 1604, 1605, 1585, 1575, 1580, 1593>>,
     <<1575, 1604, 1576, 1610, 1575, 1606, 1575, 1578>>}

(* word w stands in text from index i on                                    *)
WordAt(text, i, w) ==
    i + Len(w) - 1 <= Len(text) /\ SubSeq(text, i, i + Len(w) - 1) = w

(* index after "first, whitespace, second" standing at i, else 0            *)
two_words_end(text, i, one, two) ==
    LET a == i + Len(one)
        b == RunEnd(text, a, Whitespace)
    IN IF WordAt(text, i, one) /\ b > a /\ WordAt(text, b, two)
          THEN b + Len(two) ELSE 0

(* index after the match of toc_regex at index i, else 0: the alternatives  *)
(* of TOC_PATTERNS in their order, the first that matches wins              *)
toc_header_end(text, i) ==
    IF WordAt(text, i, AlMuhtawayat) THEN i + Len(AlMuhtawayat)
    ELSE IF WordAt(text, i, Fihris) THEN i + Len(Fihris)
    ELSE IF two_words_end(text, i, Jadwal, AlMuhtawayat) # 0
       THEN two_words_end(text, i, Jadwal, AlMuhtawayat)
    ELSE IF two_words_end(text, i, Jadwal, AlMawduat) # 0
       THEN two_words_end(text, i, Jadwal, AlMawduat)
    ELSE IF i = 1 /\ text \in {MuhtawayatAlKitab, MuhtawayatAlKitab \o <<NL>>}
       THEN 1 + Len(MuhtawayatAlKitab)
    ELSE 0

Contains(text, w) == \E i \in 1..Len(text) : WordAt(text, i, w)

(* "fahrasa", whitespace and one of its objects occur in the context        *)
cataloguing_context(context) ==
    \E i \in 1..Len(context), w \in FahrasaObjects :
        two_words_end(context, i, Fahrasa, w) # 0

CONTEXT_CHARS == 20

(* ArabicTocExtractor._extract_toc_segment: the part from the header on,    *)
(* <<>> for None                                                            *)
extract_toc_segment(text_part) ==
    LET hits == {i \in 1..Len(text_part) : toc_header_end(text_part, i) # 0}
        start == CHOOSE i \in hits : \A j \in hits : i <= j
        stop == toc_header_end(text_part, start)
        context == SubSeq(text_part, Max(1, start - CONTEXT_CHARS),
                          Min(Len(text_part), stop - 1 + CONTEXT_CHARS))
    IN IF hits = {} THEN <<>>
       ELSE IF Contains(SubSeq(text_part, start, stop - 1), Fahrasa)
               /\ cataloguing_context(context) THEN <<>>
       ELSE IF start > 1 /\ text_part[start - 1] \notin {NL, FF} THEN <<>>
       ELSE SubSeq(text_part, start, Len(text_part))

(* an OCR table is [page, column_count, cells], a cell [row, col, content]; *)
(* page is 0 for a table without bounding region                            *)
MAX_TABLE_PAGES == 20

(* a collection that ends at the hinted page when it holds no table         *)
RECURSIVE tables_in_window_ends_at_hint(_, _, _, _)
tables_in_window_ends_at_hint(tables, total_pages, page_number, check) ==
    LET current_page == page_number + check
        tables_on_page ==
            SelectSeq(tables, LAMBDA t : t.page # 0 /\ t.page = current_page)
    IN IF check >= MAX_TABLE_PAGES \/ current_page > total_pages THEN <<>>
       ELSE IF tables_on_page # <<>>
          THEN tables_on_page
               \o tables_in_window_ends_at_hint(tables, total_pages,
                      page_number, check + 1)
       ELSE <<>>

(* the tables _extract_from_table collects from page_number + check on      *)
RECURSIVE tables_in_window(_, _, _, _)
tables_in_window(tables, total_pages, page_number, check) ==
    LET current_page == page_number + check
        tables_on_page ==
            SelectSeq(tables, LAMBDA t : t.page # 0 /\ t.page = current_page)
    IN IF check >= MAX_TABLE_PAGES \/ current_page > total_pages THEN <<>>
       ELSE IF tables_on_page # <<>>
          THEN tables_on_page
               \o tables_in_window(tables, total_pages, page_number, check + 1)
       ELSE IF check > 0 THEN <<>>
       ELSE tables_in_window(tables, total_pages, page_number, check + 1)

(* the entries of one table: page cells are columns 1 and 3 of a 4-column   *)
(* table and column 1 of a 2-column table, the title is the first cell of   *)
(* the same row one column before                                           *)
RECURSIVE table_entries(_, _)
table_entries(table, n) ==
    IF n > Len(table.cells) THEN <<>>
    ELSE LET cell == table.cells[n]
             page_cols == IF table.column_count = 4 THEN {1, 3}
                          ELSE IF table.column_count = 2 THEN {1}
                          ELSE {}
             titles == {k \in 1..Len(table.cells) :
                           /\ table.cells[k].row = cell.row
                           /\ table.cells[k].col = cell.col - 1}
             title_cell ==
                 table.cells[CHOOSE k \in titles : \A j \in titles : k <= j]
         IN (IF cell.col \in page_cols /\ titles # {}
                THEN table_cell_entry(title_cell.content, cell.content)
                ELSE <<>>)
            \o table_entries(table, n + 1)

(* the cell loop of _extract_from_table raises on a cell of the table       *)
table_raises(table) ==
    LET page_cols == IF table.column_count = 4 THEN {1, 3}
                     ELSE IF table.column_count = 2 THEN {1}
                     ELSE {}
        titles(cell) == {k \in 1..Len(table.cells) :
                            /\ table.cells[k].row = cell.row
                            /\ table.cells[k].col = cell.col - 1}
        title_cell(cell) ==
            table.cells[CHOOSE k \in titles(cell) :
                           \A j \in titles(cell) : k <= j]
    IN \E n \in 1..Len(table.cells) :
          /\ table.cells[n].col \in page_cols
          /\ titles(table.cells[n]) # {}
          /\ table_cell_raises(title_cell(table.cells[n]).content,
                               table.cells[n].content)

RECURSIVE all_table_entries(_)
all_table_entries(page_tables) ==
    IF page_tables = <<>> THEN <<>>
    ELSE table_entries(Head(page_tables), 1)
         \o all_table_entries(Tail(page_tables))

----------------------------------------------------------------------------
(* A document is [local_pages, ocr_pages, ocr_tables, toc]: the text the    *)
(* local reader gives for each page, the lines the OCR backend reads on     *)
(* each page (joined, each followed by a newline), the OCR tables and the   *)
(* embedded outline. The services are [azure_configured, azure_raises,      *)
(* use_fasttext, model_available] and the answer [code, confidence] of the  *)
(* FastText model for the document's sample, confidence in percent.         *)

OCR_SAMPLE_PAGES == 10
MIN_CHARS_THRESHOLD == 50
MIN_WORDS_THRESHOLD == 10
MIN_TEXT_PAGE_CHARS == 10
MIN_TEXT_PAGE_PERCENT == 20
GIBBERISH_MIN_CHARS == 20
MIN_ALPHA_PERCENT == 50
MIN_AVG_WORD_LEN == 3
MAX_AVG_WORD_LEN == 15
ARABIC_RATIO_THRESHOLD == 30
FASTTEXT_CONFIDENCE_THRESHOLD == 50
FASTTEXT_SAMPLE_PAGES == 15
SKIP_PAGES == 3
NO_SAMPLE_CONFIDENCE == 50
OTHER_LANGUAGE_CONFIDENCE == 10
LEGACY_SAMPLE_PAGES == 10

(* str.isalpha() on Latin and Arabic letters                                *)
Letters ==
    UpperCase \cup LowerCase \cup (1568..1610) \cup (1646..1647)
              \cup (1649..1747)
(* the block U+0600..U+06FF counted by get_arabic_ratio                     *)
ArabicBlock == 1536..1791

CountIn(text, S) == Cardinality({i \in 1..Len(text) : text[i] \in S})

(* len(text.split())                                                        *)
WordCount(text) ==
    Cardinality({i \in 1..Len(text) :
        text[i] \notin Whitespace /\ (i = 1 \/ text[i - 1] \in Whitespace)})

NonSpaceCount(text) ==
    Cardinality({i \in 1..Len(text) : text[i] \notin Whitespace})

(* OCRDetector._is_gibberish                                                *)
is_gibberish(text) ==
    IF Len(text) < GIBBERISH_MIN_CHARS THEN FALSE
    ELSE IF WordCount(text) = 0 THEN TRUE
    ELSE \/ 100 * CountIn(text, Letters) < MIN_ALPHA_PERCENT * Len(text)
         \/ NonSpaceCount(text) < MIN_AVG_WORD_LEN * WordCount(text)
         \/ NonSpaceCount(text) > MAX_AVG_WORD_LEN * WordCount(text)

(* the totals of the sampling loop of is_scanned over pages[1..n]           *)
RECURSIVE scan_totals(_, _)
scan_totals(pages, n) ==
    IF n = 0 THEN [chars |-> 0, words |-> 0, pages_with_text |-> 0]
    ELSE LET prev == scan_totals(pages, n - 1)
             text == Strip(pages[n])
         IN IF is_gibberish(text) THEN prev
            ELSE [chars |-> prev.chars + Len(text),
                  words |-> prev.words + WordCount(text),
                  pages_with_text |-> prev.pages_with_text
                      + (IF Len(text) > MIN_TEXT_PAGE_CHARS THEN 1 ELSE 0)]

(* OCRDetector.is_scanned                                                   *)
is_scanned(doc) ==
    LET sample_size == Min(OCR_SAMPLE_PAGES, Len(doc.local_pages))
        totals == scan_totals(doc.local_pages, sample_size)
    IN \/ totals.chars < MIN_CHARS_THRESHOLD
       \/ totals.words < MIN_WORDS_THRESHOLD
       \/ 100 * totals.pages_with_text < MIN_TEXT_PAGE_PERCENT * sample_size

(* LanguageDetector.get_arabic_ratio(text) > arabic_threshold               *)
language_by_ratio(text) ==
    IF 100 * CountIn(text, ArabicBlock)
          > ARABIC_RATIO_THRESHOLD * Max(Len(Strip(text)), 1)
       THEN "arabic" ELSE "english"

(* the text loop of _extract_with_azure from page page_num on               *)
RECURSIVE azure_text(_, _, _, _)
azure_text(pages, page_num, sample_only, pages_to_process) ==
    IF page_num > Len(pages) THEN <<>>
    ELSE IF sample_only /\ page_num > pages_to_process THEN <<>>
    ELSE pages[page_num]
         \o (IF page_num < pages_to_process THEN <<FF>> ELSE <<>>)
         \o azure_text(pages, page_num + 1, sample_only, pages_to_process)

(* LanguageDetector._extract_with_azure: the text it returns                *)
extract_with_azure(doc, sample_only) ==
    azure_text(doc.ocr_pages, 1, sample_only,
               IF sample_only THEN LEGACY_SAMPLE_PAGES ELSE Len(doc.ocr_pages))

(* pages[from..to] joined, each followed by tail                            *)
RECURSIVE join_pages(_, _, _, _)
join_pages(pages, from, to, tail) ==
    IF from > to THEN <<>>
    ELSE pages[from] \o tail \o join_pages(pages, from + 1, to, tail)

(* LanguageDetector._extract_with_pymupdf: first ten pages                  *)
extract_with_pymupdf(doc) ==
    join_pages(doc.local_pages, 1,
               Min(LEGACY_SAMPLE_PAGES, Len(doc.local_pages)), <<>>)

(* LanguageDetector._extract_full_with_pymupdf                              *)
extract_full_with_pymupdf(doc) ==
    join_pages(doc.local_pages, 1, Len(doc.local_pages), <<NL>>)

(* the sample text of _quick_detect_language                                *)
quick_sample(doc) ==
    LET page_count == Len(doc.local_pages)
        sample_pages == Min(FASTTEXT_SAMPLE_PAGES, page_count)
        start_page == Min(SKIP_PAGES, page_count - 1)
        end_page == Min(start_page + sample_pages, page_count)
    IN join_pages(doc.local_pages, start_page + 1, end_page, <<NL>>)

----------------------------------------------------------------------------
(* SpecRanges: the section builders on bounded inputs                       *)

MaxEntries == 6
MaxBookmarks == 5
MaxMatches == 3
MaxParagraphs == 3

FirstPages == {5}
PageDeltas == {-21, 0, 15, 600}
OffsetSamples == {0, 10}
ArabicNumPages == {30, 300}
EnglishNumPages == {10, 300}
BookmarkLevels == {1, 2, 3}
BookmarkPages == {3, 12}
(* a power of two, so that the float quotient of estimated_page is exact    *)
PatternTextLen == 2 ^ 6

TitleName(i) == "T" \o ToString(i)

(* the pages first, first + d1, first + d1 + d2, ...                        *)
RECURSIVE PagesFrom(_, _)
PagesFrom(first, deltas) ==
    IF deltas = <<>> THEN <<first>>
    ELSE <<first>> \o PagesFrom(first + Head(deltas), Tail(deltas))

EntriesOf(pages) ==
    [i \in 1..Len(pages) |-> [title |-> TitleName(i), page |-> pages[i]]]

(* parsed entries: every page passed the parsers' 1..9999 sanity check      *)
EntryLists ==
    {<<>>} \cup
    {EntriesOf(ps) : ps \in
        {qs \in {PagesFrom(first, ds) : first \in FirstPages,
                    ds \in SeqsBetween(PageDeltas, 0, MaxEntries - 1)} :
            \A i \in 1..Len(qs) : qs[i] >= 1 /\ qs[i] <= PAGE_END_SENTINEL}}

TocLists ==
    {[i \in 1..Len(t) |-> [level |-> t[i][1], title |-> TitleName(i),
                           page |-> t[i][2]]] :
        t \in SeqsBetween(BookmarkLevels \X BookmarkPages, 0, MaxBookmarks)}

MatchSamples ==
    LET m == [number |-> [parts |-> <<1>>, alpha |-> <<>>], title |-> "Intro",
              char_pos |-> 0]
    IN {m,
        [m EXCEPT !.char_pos = 40],
        [m EXCEPT !.number = [parts |-> <<1, 1>>, alpha |-> <<>>],
                  !.char_pos = 40],
        [m EXCEPT !.number = [parts |-> <<>>, alpha |-> <<73, 86>>],
                  !.title = "Basics", !.char_pos = 40],
        [m EXCEPT !.number = [parts |-> <<2>>, alpha |-> <<>>],
                  !.title = "Basics", !.char_pos = 20],
        [m EXCEPT !.title = "ab", !.char_pos = 20]}

MatchLists == SeqsBetween(MatchSamples, 0, MaxMatches)

ParagraphSamples ==
    LET h == [role |-> "sectionHeading", title |-> "H", numeric |-> FALSE,
              height |-> 30, font_size |-> -1, length |-> 10,
              page |-> 2, offset |-> 40]
    IN {h,
        [h EXCEPT !.role = "title", !.title = "A", !.page = 1, !.offset = 0],
        [h EXCEPT !.title = "B", !.offset = 10],
        [h EXCEPT !.title = "C", !.page = 7, !.font_size = 18],
        [h EXCEPT !.role = "pageHeader"],
        [h EXCEPT !.numeric = TRUE],
        [h EXCEPT !.height = 20],
        [h EXCEPT !.font_size = 12],
        [h EXCEPT !.length = 2],
        [h EXCEPT !.page = -1, !.height = -1]}

ParagraphLists == SeqsBetween(ParagraphSamples, 0, MaxParagraphs)

RangesInput(kind, entries, toc, found, paragraphs, has_result, offset, n) ==
    [kind |-> kind, entries |-> entries, toc |-> toc, found |-> found,
     paragraphs |-> paragraphs, has_result |-> has_result,
     text_len |-> PatternTextLen, page_offset |-> offset, num_pages |-> n]

(* the OCR results of the table window: the pages that hold a table are a   *)
(* set of the first pages or every page of a long document; one more table  *)
(* comes without a bounding region                                          *)
MaxTablePages == 24
WindowPages == 4
TableLayouts == (SUBSET (1..WindowPages)) \cup {1..MaxTablePages}
WindowTotals == {WindowPages - 1, MaxTablePages}
WindowHints == 1..WindowPages

TablesOn(table_pages) ==
    <<[page |-> 0, column_count |-> 2, cells |-> <<>>]>>
    \o SelectSeq([p \in 1..MaxTablePages |->
                     [page |-> p, column_count |-> 2, cells |-> <<>>]],
                 LAMBDA t : t.page \in table_pages)

WindowInput(table_pages, hint, total_pages) ==
    [kind |-> "table_window", table_pages |-> table_pages,
     tables |-> TablesOn(table_pages), page_number |-> hint,
     total_pages |-> total_pages]

RangesInit ==
    /\ pc = "start"
    /\ cleaned = <<>>
    /\ report = NoReport
    /\ parsed = NoEntries /\ detection = NoDetection
    /\ detector = NewDetectors /\ calls = <<>> /\ first_run = NoReport
    /\ \/ \E es \in EntryLists, off \in OffsetSamples, n \in ArabicNumPages :
             input = RangesInput("arabic_text", es, <<>>, <<>>, <<>>, FALSE,
                                 off, n)
       \/ \E es \in EntryLists :
             input = RangesInput("arabic_table", es, <<>>, <<>>, <<>>, FALSE,
                                 0, 300)
       \/ \E toc \in TocLists, n \in EnglishNumPages :
             input = RangesInput("english", <<>>, toc, <<>>, <<>>, FALSE, 0, n)
       \/ \E found \in MatchLists, n \in EnglishNumPages :
             input = RangesInput("english", <<>>, <<>>, found, <<>>, FALSE,
                                 0, n)
       \/ \E ps \in ParagraphLists :
             input = RangesInput("headings", <<>>, <<>>, <<>>, ps, TRUE, 0, 10)
       \/ input = RangesInput("headings", <<>>, <<>>, <<>>, <<>>, FALSE, 0, 10)
       \/ \E table_pages \in TableLayouts, hint \in WindowHints,
             total_pages \in WindowTotals :
             input = WindowInput(table_pages, hint, total_pages)

(* ArabicTocExtractor._extract_from_table, the loop that collects           *)
(* page_tables; the collected tables are kept in cleaned                    *)
CollectPageTables ==
    /\ pc = "start" /\ input.kind = "table_window"
    /\ cleaned' = tables_in_window(input.tables, input.total_pages,
                                   input.page_number, 0)
    /\ pc' = "collected"
    /\ UNCHANGED <<input, report, unused_by_builders>>

(* ArabicTocExtractor.extract, steps 2 and 4, on the entries parsed from    *)
(* the TOC segment: clean, accept at MIN_ARABIC_ENTRIES, build sections     *)
ArabicTextSections ==
    /\ pc = "start" /\ input.kind = "arabic_text"
    /\ cleaned' = clean_entries(input.entries)
    /\ report' = IF Len(cleaned') >= MIN_ARABIC_ENTRIES
                    THEN SectionsReport(TRUE,
                            create_sections(cleaned', input.page_offset),
                            "text_beginning")
                    ELSE arabic_fallback_section
    /\ pc' = "extracted"
    /\ UNCHANGED <<input, unused_by_builders>>

EntryPageKey(e) == <<e.page>>

(* a table extraction that accepts one entry less than MIN_ARABIC_ENTRIES   *)
table_sections_accepts_fewer(all_entries, page_offset) ==
    LET entries_clean == clean_entries(StableSort(all_entries, EntryPageKey))
    IN IF Len(all_entries) >= MIN_ARABIC_ENTRIES - 1
          /\ Len(entries_clean) >= MIN_ARABIC_ENTRIES - 1
       THEN create_sections(entries_clean, page_offset)
       ELSE <<>>

(* ArabicTocExtractor._extract_from_table, from all_entries on: sort by     *)
(* page, clean, accept at MIN_ARABIC_ENTRIES; None lets extract fall back   *)
table_sections(all_entries, page_offset) ==
    LET entries_clean == clean_entries(StableSort(all_entries, EntryPageKey))
    IN IF Len(all_entries) >= MIN_ARABIC_ENTRIES
          /\ Len(entries_clean) >= MIN_ARABIC_ENTRIES
       THEN create_sections(entries_clean, page_offset)
       ELSE <<>>

ArabicTableSections ==
    /\ pc = "start" /\ input.kind = "arabic_table"
    /\ cleaned' = IF Len(input.entries) >= MIN_ARABIC_ENTRIES
                     THEN clean_entries(StableSort(input.entries, EntryPageKey))
                     ELSE <<>>
    /\ LET sections == table_sections(input.entries, input.page_offset)
       IN report' = IF sections # <<>>
                       THEN SectionsReport(TRUE, sections, "azure_table")
                       ELSE arabic_fallback_section
    /\ pc' = "extracted"
    /\ UNCHANGED <<input, unused_by_builders>>

(* an English branch that wants more than MIN_BOOKMARKS_OK outline items    *)
extract_english_needs_more(toc, has_text, found, text_len, num_pages) ==
    LET bookmarks == extract_bookmarks(toc, num_pages)
        pattern_report == english_extract(found, text_len, num_pages)
    IN IF Len(bookmarks) > MIN_BOOKMARKS_OK
          THEN SectionsReport(TRUE,
                   sections_from_bookmarks(bookmarks, num_pages),
                   "english_bookmarks")
       ELSE IF has_text /\ Len(pattern_report.sections) > 1
          THEN pattern_report
       ELSE fallback_section("Document", num_pages)

(* TocExtractor._extract_english on the outline items and the regex         *)
(* matches of the text                                                      *)
extract_english(toc, has_text, found, text_len, num_pages) ==
    LET bookmarks == extract_bookmarks(toc, num_pages)
        pattern_report == english_extract(found, text_len, num_pages)
    IN IF Len(bookmarks) >= MIN_BOOKMARKS_OK
          THEN SectionsReport(TRUE,
                   sections_from_bookmarks(bookmarks, num_pages),
                   "english_bookmarks")
       ELSE IF has_text /\ Len(pattern_report.sections) > 1
          THEN pattern_report
       ELSE fallback_section("Document", num_pages)

EnglishSections ==
    /\ pc = "start" /\ input.kind = "english"
    /\ report' = extract_english(input.toc, TRUE, input.found,
                                 input.text_len, input.num_pages)
    /\ pc' = "extracted"
    /\ UNCHANGED <<input, cleaned, unused_by_builders>>

(* TocGenerator.generate: its result is returned as it is                   *)
GenerateSections ==
    /\ pc = "start" /\ input.kind = "headings"
    /\ report' = generate(input.has_result, input.paragraphs, input.num_pages)
    /\ pc' = "returned"
    /\ UNCHANGED <<input, cleaned, unused_by_builders>>

(* TocExtractor._fix_page_ranges after the extraction                       *)
FixPageRanges ==
    /\ pc = "extracted"
    /\ report' = fix_page_ranges(report, input.num_pages)
    /\ pc' = "fixed"
    /\ UNCHANGED <<input, cleaned, unused_by_builders>>

RangesNext ==
    \/ CollectPageTables
    \/ ArabicTextSections
    \/ ArabicTableSections
    \/ EnglishSections
    \/ GenerateSections
    \/ FixPageRanges

SpecRanges == RangesInit /\ [][RangesNext]_vars

----------------------------------------------------------------------------
(* SpecParse: the TOC parsers on page numbers written in either script      *)

MaxDigits == 4
DigitSamples == {0, 1, 2, 3, 4, 9}
Scripts == {"ascii", "arabic_indic"}
PageForms == {"plain", "padded", "second_number"}

(* "muqaddima"                                                              *)
SampleTitle == <<1605, 1602, 1583, 1605, 1577>>
SPACE == 32

ScriptZero(script) ==
    IF script = "ascii" THEN ASCII_ZERO ELSE ARABIC_INDIC_ZERO

(* the number with decimal digits ds written in the glyphs of a script      *)
Glyphs(ds, script) == [i \in 1..Len(ds) |-> ScriptZero(script) + ds[i]]

(* the page line of a split-line entry: "12", "  12 " or the range "12-7"   *)
PageLine(ds, script, form) ==
    IF form = "plain" THEN Glyphs(ds, script)
    ELSE IF form = "padded"
       THEN <<SPACE, SPACE>> \o Glyphs(ds, script) \o <<SPACE>>
    ELSE Glyphs(ds, script) \o <<HYPHEN>> \o Glyphs(<<7>>, script)

(* the page cell of a table row: "12", "  12 " or "12 wa 7"                 *)
PageCell(ds, script, form) ==
    IF form = "second_number"
       THEN Glyphs(ds, script) \o <<SPACE, WAW, SPACE>> \o Glyphs(<<7>>, script)
       ELSE PageLine(ds, script, form)

(* a TOC segment of one title line followed by its page line                *)
SplitLineText(ds, script, form) ==
    SampleTitle \o <<NL>> \o PageLine(ds, script, form) \o <<NL>>

ParseInit ==
    /\ pc = "start"
    /\ parsed = NoEntries /\ cleaned = <<>> /\ report = NoReport
    /\ detection = NoDetection /\ detector = NewDetectors
    /\ calls = <<>> /\ first_run = NoReport
    /\ \E ds \in SeqsBetween(DigitSamples, 1, MaxDigits),
          script \in Scripts, form \in PageForms :
          input = [kind |-> "page_number", digits |-> ds,
                   script |-> script, form |-> form]

(* _parse_toc_entries on the split-line segment                             *)
ParseSplitLines ==
    /\ pc = "start" /\ input.kind = "page_number"
    /\ parsed' = [parsed EXCEPT !.lines =
          parse_toc_entries(
              SplitLineText(input.digits, input.script, input.form))]
    /\ pc' = "lines_parsed"
    /\ UNCHANGED <<input, cleaned, report, detection, detector, calls,
                   first_run>>

(* the cell loop of _extract_from_table on one title cell and page cell     *)
ParseTableCell ==
    /\ pc = "lines_parsed"
    /\ parsed' = [parsed EXCEPT !.cells =
          table_cell_entry(SampleTitle,
              PageCell(input.digits, input.script, input.form))]
    /\ pc' = "parsed"
    /\ UNCHANGED <<input, cleaned, report, detection, detector, calls,
                   first_run>>

(* the leader between a title and its page number on one line: a space, or  *)
(* a run of dots between spaces                                             *)
Leaders ==
    {<<SPACE>>, <<SPACE, FULL_STOP, FULL_STOP, FULL_STOP, FULL_STOP, SPACE>>}

(* "khatima"                                                                *)
NextTitle == <<1582, 1575, 1578, 1605, 1577>>

(* a TOC segment of two entries that carry their page number on their own   *)
(* line, the second one on the following page                               *)
SameLineText(ds, script, leader) ==
    SampleTitle \o leader \o Glyphs(ds, script) \o <<NL>>
    \o NextTitle \o leader \o Glyphs(ds, script) \o <<NL>>

(* _parse_toc_entries on the same-line segment                              *)
ParseSameLine ==
    /\ pc = "parsed"
    /\ \E leader \in Leaders :
          parsed' = [parsed EXCEPT !.same_line =
             <<[leader |-> leader,
                entries |-> parse_toc_entries(
                    SameLineText(input.digits, input.script, leader))]>>]
    /\ pc' = "same_line_parsed"
    /\ UNCHANGED <<input, cleaned, report, detection, detector, calls,
                   first_run>>

ParseNext == ParseSplitLines \/ ParseTableCell \/ ParseSameLine

SpecParse == ParseInit /\ [][ParseNext]_vars

----------------------------------------------------------------------------
(* Spec: classification and extraction on sample documents                  *)

DocPages == 14
TocEntryCount == 6

(* "hadha nass min al-kitab" and its English counterpart, one line each     *)
ArabicLine == <<1607, 1584, 1575, 32, 1606, 1589, 32, 1605, 1606, 32, 1575, 1604, 1603, 1578, 1575, 1576>>
EnglishLine == <<112, 108, 97, 105, 110, 32, 98, 111, 100, 121, 32, 116, 101, 120, 116, 32, 104, 101, 114, 101>>
ChapterWord == <<67, 104, 97, 112, 116, 101, 114>>
HeadingTitle == <<73, 110, 116, 114, 111>>

RECURSIVE DigitsOf(_)
DigitsOf(n) == IF n < 10 THEN <<n>> ELSE DigitsOf(n \div 10) \o <<n % 10>>

ArabicBodyPage == ArabicLine \o <<NL>>
EnglishBodyPage == EnglishLine \o <<NL>>

(* a page that opens with the heading "Chapter n: Intro"                    *)
ChapterPage(n) ==
    ChapterWord \o <<SPACE>> \o Glyphs(DigitsOf(n), "ascii")
        \o <<COLON, SPACE>> \o HeadingTitle \o <<NL>> \o EnglishLine \o <<NL>>

(* the i-th title of a TOC page and the page it names                       *)
TocTitle(i) == SubSeq(SampleTitle, 1, MIN_LINE_LEN) \o <<1576 + i>>
TocEntryPage(i) == 2 * i

RECURSIVE TocLines(_, _)
TocLines(i, count) ==
    IF i > count THEN <<>>
    ELSE TocTitle(i) \o <<NL>>
         \o Glyphs(DigitsOf(TocEntryPage(i)), "arabic_indic") \o <<NL>>
         \o TocLines(i + 1, count)

(* a TOC page in split-line form under the header "al-muhtawayat"           *)
TocPage(count) == AlMuhtawayat \o <<NL>> \o TocLines(1, count)

(* the two-column OCR table of the same TOC on page page                    *)
TocTable(page, count) ==
    [page |-> page, column_count |-> 2,
     cells |-> [k \in 1..(2 * count) |->
        LET i == (k + 1) \div 2
        IN IF k % 2 = 1
              THEN [row |-> i - 1, col |-> 0, content |-> TocTitle(i)]
              ELSE [row |-> i - 1, col |-> 1,
                    content |-> Glyphs(DigitsOf(TocEntryPage(i)),
                                       "arabic_indic")]]]

(* the same table with the page cell of its last row followed by the       *)
(* footnote mark U+00B2                                                     *)
FootnoteTable(page, count) ==
    [TocTable(page, count) EXCEPT
        !.cells[2 * count].content = @ \o <<178>>]

Outline(count) ==
    [i \in 1..count |->
        [level |-> IF i % 3 = 0 THEN 2 ELSE 1, title |-> TitleName(i),
         page |-> 2 * i]]

Document(local_pages, ocr_pages, ocr_tables, toc) ==
    [local_pages |-> local_pages, ocr_pages |-> ocr_pages,
     ocr_tables |-> ocr_tables, toc |-> toc]

(* DocPages pages of body with the special page at index at                 *)
PagesWith(body, special, at) ==
    [i \in 1..DocPages |-> IF i = at THEN special ELSE body]

(* the pages that open with a heading, chapters 1 to 4                      *)
ChapterPages == <<2, 4, 7, 9>>

HeadingPages ==
    [i \in 1..DocPages |->
        IF \E k \in 1..Len(ChapterPages) : ChapterPages[k] = i
           THEN ChapterPage(CHOOSE k \in 1..Len(ChapterPages) :
                               ChapterPages[k] = i)
           ELSE EnglishBodyPage]

BlankPages == [i \in 1..DocPages |-> <<>>]

Documents ==
    [arabic_toc |->
        Document(PagesWith(ArabicBodyPage, TocPage(TocEntryCount), 1),
                 PagesWith(ArabicBodyPage, TocPage(TocEntryCount), 1),
                 <<TocTable(1, TocEntryCount)>>, <<>>),
     arabic_short_toc |->
        Document(PagesWith(ArabicBodyPage, TocPage(MIN_ARABIC_ENTRIES - 1), 1),
                 PagesWith(ArabicBodyPage, TocPage(MIN_ARABIC_ENTRIES - 1), 1),
                 <<TocTable(1, MIN_ARABIC_ENTRIES - 1)>>, <<>>),
     arabic_toc_at_end |->
        Document(PagesWith(ArabicBodyPage, TocPage(TocEntryCount), DocPages),
                 PagesWith(ArabicBodyPage, TocPage(TocEntryCount), DocPages),
                 <<>>, <<>>),
     arabic_plain |->
        Document(PagesWith(ArabicBodyPage, ArabicBodyPage, 1),
                 PagesWith(ArabicBodyPage, ArabicBodyPage, 1), <<>>, <<>>),
     arabic_scanned |->
        Document(BlankPages,
                 PagesWith(ArabicBodyPage, TocPage(TocEntryCount), 1),
                 <<TocTable(1, TocEntryCount)>>, <<>>),
     english_outline |->
        Document(PagesWith(EnglishBodyPage, EnglishBodyPage, 1),
                 PagesWith(EnglishBodyPage, EnglishBodyPage, 1),
                 <<>>, Outline(TocEntryCount)),
     english_min_outline |->
        Document(HeadingPages, HeadingPages, <<>>, Outline(MIN_BOOKMARKS_OK)),
     english_small_outline |->
        Document(HeadingPages, HeadingPages, <<>>,
                 Outline(MIN_BOOKMARKS_OK - 1)),
     english_plain |->
        Document(PagesWith(EnglishBodyPage, EnglishBodyPage, 1),
                 PagesWith(EnglishBodyPage, EnglishBodyPage, 1), <<>>, <<>>),
     english_scanned |->
        Document(BlankPages, HeadingPages, <<>>, <<>>),
     blank |->
        Document(BlankPages, BlankPages, <<>>, <<>>),
     arabic_footnote_toc |->
        Document(PagesWith(ArabicBodyPage, TocPage(TocEntryCount), 1),
                 PagesWith(ArabicBodyPage, TocPage(TocEntryCount), 1),
                 <<FootnoteTable(1, TocEntryCount)>>, <<>>),
     corrupt |->
        Document(<<>>, <<>>, <<>>, <<>>)]

DocNames ==
    {"arabic_toc", "arabic_short_toc", "arabic_toc_at_end", "arabic_plain",
     "arabic_scanned", "english_outline", "english_min_outline",
     "english_small_outline", "english_plain", "english_scanned", "blank",
     "arabic_footnote_toc", "corrupt"}

(* the documents whose container fitz.open rejects                          *)
Unparseable == {"corrupt"}

----------------------------------------------------------------------------
(* What the readers give for each sample document, and the text-level       *)
(* steps on each text they give: the operators above applied to every       *)
(* sample, so that a step of Spec looks the result up. The detector and     *)
(* the extractors below take these reads as their pdf_bytes.                *)

Reads ==
    LET reads(doc, openable) ==
            [openable |-> openable,
             scanned |-> openable /\ is_scanned(doc),
             azure_full |-> extract_with_azure(doc, FALSE),
             azure_sample |-> extract_with_azure(doc, TRUE),
             pymupdf_sample |-> extract_with_pymupdf(doc),
             pymupdf_full |-> extract_full_with_pymupdf(doc),
             quick_sample |->
                 IF openable THEN Strip(quick_sample(doc)) ELSE <<>>,
             toc |-> doc.toc,
             tables |-> doc.ocr_tables,
             ocr_page_count |-> Len(doc.ocr_pages),
             page_count |-> Len(doc.local_pages)]
    IN [pdf \in DocNames |-> reads(Documents[pdf], pdf \notin Unparseable)]

(* the texts detect can return for a document                               *)
DetectTexts(reads) ==
    {reads.azure_full, reads.azure_sample, reads.pymupdf_sample,
     reads.pymupdf_full}

(* every text detect can return, and the empty text                         *)
Texts == {<<>>} \cup UNION {DetectTexts(Reads[pdf]) : pdf \in DocNames}

LanguageByRatio == [text \in Texts |-> language_by_ratio(text)]

(* the matches of PATTERNS in a text, in the order of _extract_sections     *)
FoundMatches == [text \in Texts |-> found_matches(text, 1)]

(* steps 2 and 3 of ArabicTocExtractor.extract on a text: the TOC segment   *)
(* of the first third and of the last fifth, parsed and cleaned             *)
TocEntries ==
    [text \in Texts |->
        LET size == Len(text)
            begin_text == extract_toc_segment(SubSeq(text, 1, size \div 3))
            end_text == extract_toc_segment(
                            SubSeq(text, ((4 * size) \div 5) + 1, size))
        IN [begin_found |-> begin_text # <<>>,
            begin_entries |-> clean_entries(parse_toc_entries(begin_text)),
            end_found |-> end_text # <<>>,
            end_entries |-> clean_entries(parse_toc_entries(end_text))]]

----------------------------------------------------------------------------
(* ArabicTocExtractor.extract and TocExtractor on a document                *)

NoAzureResult == [present |-> FALSE, tables |-> <<>>, total_pages |-> 0]

(* ArabicTocExtractor._extract_from_table: the sections, <<>> for None      *)
extract_from_table(page_number, azure_result, page_offset) ==
    LET page_tables == tables_in_window(azure_result.tables,
                           azure_result.total_pages, page_number, 0)
    IN IF azure_result.tables = <<>> THEN <<>>
       ELSE IF page_tables = <<>> THEN <<>>
       ELSE table_sections(all_table_entries(page_tables), page_offset)

(* _extract_from_table leaves with the ValueError of a page cell            *)
extract_from_table_raises(page_number, azure_result) ==
    LET page_tables == tables_in_window(azure_result.tables,
                           azure_result.total_pages, page_number, 0)
    IN \E t \in 1..Len(page_tables) : table_raises(page_tables[t])

Attempt(rep, attempts, entries) ==
    [report |-> rep, attempts |-> attempts, cleaned |-> entries]

(* an Arabic extraction that scans the beginning of the text before it      *)
(* reads the tables                                                         *)
arabic_extract_scans_first(extracted_text, toc_page_number, azure_result, page_offset) ==
    LET toc == TocEntries[extracted_text]
        sections == IF toc_page_number # 0 /\ azure_result.present
                       THEN extract_from_table(toc_page_number, azure_result,
                                               page_offset)
                       ELSE <<>>
    IN IF extracted_text = <<>>
          THEN Attempt(arabic_fallback_section, <<>>, <<>>)
       ELSE IF toc.begin_found /\ Len(toc.begin_entries) >= MIN_ARABIC_ENTRIES
          THEN Attempt(SectionsReport(TRUE,
                           create_sections(toc.begin_entries, page_offset),
                           "text_beginning"),
                       <<"text_beginning">>, toc.begin_entries)
       ELSE IF sections # <<>>
          THEN Attempt(SectionsReport(TRUE, sections, "azure_table"),
                       <<"text_beginning", "text_end", "azure_table">>, <<>>)
       ELSE Attempt(arabic_fallback_section,
                    <<"text_beginning", "text_end">>, <<>>)

(* ArabicTocExtractor.extract: the report, the strategies it ran in order   *)
(* and the entries its last _clean_entries call kept; toc_page_number is 0  *)
(* for None. Step 1 reads the tables when the caller gave a TOC page and    *)
(* an OCR result, steps 2 and 3 the beginning and the end of the text. An   *)
(* exception of step 1 is caught nowhere: the report is then NoReport       *)
arabic_extract(extracted_text, toc_page_number, azure_result, page_offset) ==
    LET accept(entries, strategy, tried) ==
            Attempt(SectionsReport(TRUE,
                        create_sections(entries, page_offset), strategy),
                    tried, entries)
        from_text(toc, tried) ==
            IF toc.begin_found /\ Len(toc.begin_entries) >= MIN_ARABIC_ENTRIES
               THEN accept(toc.begin_entries, "text_beginning",
                           tried \o <<"text_beginning">>)
            ELSE IF toc.end_found
                    /\ Len(toc.end_entries) >= MIN_ARABIC_ENTRIES
               THEN accept(toc.end_entries, "text_end",
                           tried \o <<"text_beginning", "text_end">>)
            ELSE Attempt(arabic_fallback_section,
                         tried \o <<"text_beginning", "text_end">>,
                         IF toc.end_found THEN toc.end_entries
                         ELSE IF toc.begin_found THEN toc.begin_entries
                         ELSE <<>>)
        from_table(sections, tried) ==
            IF sections # <<>>
               THEN Attempt(SectionsReport(TRUE, sections, "azure_table"),
                            tried, <<>>)
               ELSE from_text(TocEntries[extracted_text], tried)
        steps(use_table) ==
            from_table(IF use_table
                          THEN extract_from_table(toc_page_number,
                                   azure_result, page_offset)
                          ELSE <<>>,
                       IF use_table THEN <<"azure_table">> ELSE <<>>)
        guarded(use_table) ==
            IF use_table
                  /\ extract_from_table_raises(toc_page_number, azure_result)
               THEN Attempt(NoReport, <<"azure_table">>, <<>>)
               ELSE steps(use_table)
    IN IF extracted_text = <<>>
          THEN Attempt(arabic_fallback_section, <<>>, <<>>)
          ELSE guarded(toc_page_number # 0 /\ azure_result.present)

(* the Arabic branch of TocExtractor.extract                                *)
extractor_arabic(extracted_text, num_pages) ==
    IF extracted_text # <<>>
       THEN arabic_extract(extracted_text, 0, NoAzureResult, 0)
       ELSE Attempt(fallback_section("Document", num_pages), <<>>, <<>>)

(* an English branch that goes on to the pattern extraction after the       *)
(* outline was accepted                                                     *)
extractor_english_tries_all(pdf, extracted_text) ==
    Attempt(extract_english(pdf.toc, TRUE,
                FoundMatches[IF extracted_text # <<>> THEN extracted_text
                             ELSE pdf.pymupdf_full],
                Len(IF extracted_text # <<>> THEN extracted_text
                    ELSE pdf.pymupdf_full),
                pdf.page_count),
            <<"english_bookmarks", "english_pattern">>, <<>>)

(* the English branch of TocExtractor.extract: _extract_english with the    *)
(* text of detect or, without it, the text of all pages                     *)
extractor_english(pdf, extracted_text) ==
    LET tried(rep, has_text) ==
            Attempt(rep,
                    IF rep.strategy # "english_bookmarks" /\ has_text
                       THEN <<"english_bookmarks", "english_pattern">>
                       ELSE <<"english_bookmarks">>,
                    <<>>)
        on_text(text, has_text) ==
            tried(extract_english(pdf.toc, has_text, FoundMatches[text],
                                  Len(text), pdf.page_count),
                  has_text)
    IN on_text(IF extracted_text # <<>> THEN extracted_text
               ELSE pdf.pymupdf_full,
               extracted_text # <<>> \/ Strip(pdf.pymupdf_full) # <<>>)

----------------------------------------------------------------------------
(* LanguageDetector: every operator returns what detect returns, the calls  *)
(* it made and the detector's members after the call                        *)

Detection(language, text, azure_result, made, det) ==
    [language |-> language, text |-> text, azure_result |-> azure_result,
     calls |-> made, detector |-> det]

(* the services' call to the OCR backend succeeds                           *)
azure_answers(services) ==
    services.azure_configured /\ ~services.azure_raises

(* a legacy detection that returns the local reader's sample for a         *)
(* document the OCR sample shows to be English                              *)
detect_legacy_local_for_english(pdf, services, made, det) ==
    LET by_ratio(got) ==
            Detection(LanguageByRatio[got.text], got.text, got.azure_result,
                      made \o got.calls,
                      IF services.azure_configured
                         THEN [det EXCEPT !.azure_client = TRUE] ELSE det)
    IN by_ratio(IF azure_answers(services) /\ pdf.azure_sample # <<>>
                      /\ LanguageByRatio[pdf.azure_sample] = "arabic"
                   THEN [text |-> pdf.azure_sample, azure_result |-> TRUE,
                         calls |-> <<"azure_sample">>]
                ELSE IF services.azure_configured
                   THEN [text |-> pdf.pymupdf_sample, azure_result |-> FALSE,
                         calls |-> <<"azure_sample", "pymupdf_sample">>]
                ELSE [text |-> pdf.pymupdf_sample, azure_result |-> FALSE,
                      calls |-> <<"pymupdf_sample">>])

(* LanguageDetector._detect_legacy                                          *)
detect_legacy(pdf, services, made, det) ==
    LET by_ratio(got) ==
            Detection(LanguageByRatio[got.text], got.text, got.azure_result,
                      made \o got.calls,
                      IF services.azure_configured
                         THEN [det EXCEPT !.azure_client = TRUE] ELSE det)
    IN by_ratio(IF azure_answers(services) /\ pdf.azure_sample # <<>>
                   THEN [text |-> pdf.azure_sample, azure_result |-> TRUE,
                         calls |-> <<"azure_sample">>]
                ELSE IF services.azure_configured
                   THEN [text |-> pdf.pymupdf_sample, azure_result |-> FALSE,
                         calls |-> <<"azure_sample", "pymupdf_sample">>]
                ELSE [text |-> pdf.pymupdf_sample, azure_result |-> FALSE,
                      calls |-> <<"pymupdf_sample">>])

(* a quick detection whose first call on a detector fails while the model  *)
(* is being loaded                                                          *)
quick_detect_language_fails_first(pdf, services, prediction, det) ==
    IF ~det.fasttext_model
       THEN [raised |-> TRUE, language |-> "none", confidence |-> 0]
    ELSE IF pdf.quick_sample = <<>>
       THEN [raised |-> FALSE, language |-> "english",
             confidence |-> NO_SAMPLE_CONFIDENCE]
    ELSE IF prediction.code = "ar"
       THEN [raised |-> FALSE, language |-> "arabic",
             confidence |-> prediction.confidence]
    ELSE IF prediction.code = "en"
       THEN [raised |-> FALSE, language |-> "english",
             confidence |-> prediction.confidence]
    ELSE [raised |-> FALSE, language |-> "english",
          confidence |-> OTHER_LANGUAGE_CONFIDENCE]

(* LanguageDetector._quick_detect_language with _load_fasttext_model:       *)
(* raised (no model, or fitz.open rejects the container), or the language   *)
(* and the confidence                                                       *)
quick_detect_language(pdf, services, prediction, det) ==
    IF (~det.fasttext_model /\ ~services.model_available) \/ ~pdf.openable
       THEN [raised |-> TRUE, language |-> "none", confidence |-> 0]
    ELSE IF pdf.quick_sample = <<>>
       THEN [raised |-> FALSE, language |-> "english",
             confidence |-> NO_SAMPLE_CONFIDENCE]
    ELSE IF prediction.code = "ar"
       THEN [raised |-> FALSE, language |-> "arabic",
             confidence |-> prediction.confidence]
    ELSE IF prediction.code = "en"
       THEN [raised |-> FALSE, language |-> "english",
             confidence |-> prediction.confidence]
    ELSE [raised |-> FALSE, language |-> "english",
          confidence |-> OTHER_LANGUAGE_CONFIDENCE]

(* LanguageDetector._detect_with_fasttext                                   *)
detect_with_fasttext(pdf, services, prediction, made, det) ==
    LET full(quick, tried, loaded) ==
            IF quick.language = "arabic" /\ azure_answers(services)
               THEN Detection("arabic", pdf.azure_full, TRUE,
                              tried \o <<"azure_full">>,
                              [loaded EXCEPT !.azure_client = TRUE])
            ELSE IF quick.language = "arabic" /\ services.azure_configured
               THEN Detection("arabic", pdf.pymupdf_full, FALSE,
                              tried \o <<"azure_full", "pymupdf_full">>,
                              [loaded EXCEPT !.azure_client = TRUE])
            ELSE Detection(quick.language, pdf.pymupdf_full, FALSE,
                           tried \o <<"pymupdf_full">>, loaded)
        phases(quick, tried, loaded) ==
            IF quick.raised
                  \/ quick.confidence < FASTTEXT_CONFIDENCE_THRESHOLD
               THEN detect_legacy(pdf, services, tried, loaded)
               ELSE full(quick, tried, loaded)
    IN phases(quick_detect_language(pdf, services, prediction, det),
              made \o <<"fasttext">>,
              [det EXCEPT !.fasttext_model =
                  det.fasttext_model \/ services.model_available])

(* a detect without the scan check: every document goes to the FastText or  *)
(* the legacy detection                                                     *)
detect_without_scan_check(pdf, services, prediction, det) ==
    IF services.use_fasttext
       THEN detect_with_fasttext(pdf, services, prediction,
                                 <<"is_scanned">>, det)
       ELSE detect_legacy(pdf, services, <<"is_scanned">>, det)

(* LanguageDetector.detect: a scanned document is read by the OCR backend   *)
(* when that is configured and answers, every other document goes on to     *)
(* the FastText or the legacy detection                                     *)
detect(pdf, services, prediction, det) ==
    LET normal(made, after) ==
            IF services.use_fasttext
               THEN detect_with_fasttext(pdf, services, prediction, made,
                                         after)
               ELSE detect_legacy(pdf, services, made, after)
    IN IF pdf.scanned /\ azure_answers(services)
          THEN Detection(LanguageByRatio[pdf.azure_full], pdf.azure_full,
                         TRUE, <<"is_scanned", "azure_full">>,
                         [det EXCEPT !.azure_client = TRUE])
          ELSE normal(IF pdf.scanned /\ services.azure_configured
                         THEN <<"is_scanned", "azure_full">>
                         ELSE <<"is_scanned">>,
                      IF pdf.scanned /\ services.azure_configured
                         THEN [det EXCEPT !.azure_client = TRUE] ELSE det)

----------------------------------------------------------------------------
(* Spec: requests on the sample documents                                   *)

(* int(char_pos / len(text) * num_pages) is decided for every match         *)
FloatExact(text, num_pages) ==
    LET found == FoundMatches[text]
    IN \A i \in 1..Len(found) :
          \/ found[i].char_pos = 0
          \/ (found[i].char_pos * num_pages) % Len(text) # 0

Services(configured, raises, use_fasttext, available) ==
    [azure_configured |-> configured, azure_raises |-> raises,
     use_fasttext |-> use_fasttext, model_available |-> available]

ServiceSamples ==
    {Services(az[1], az[2], ft[1], ft[2]) :
        az \in {<<FALSE, FALSE>>, <<TRUE, TRUE>>, <<TRUE, FALSE>>},
        ft \in {<<FALSE, FALSE>>, <<TRUE, FALSE>>, <<TRUE, TRUE>>}}

Prediction(code, confidence) == [code |-> code, confidence |-> confidence]

(* confidences below, at and above FASTTEXT_CONFIDENCE_THRESHOLD            *)
PredictionSamples ==
    {Prediction("ar", 90), Prediction("ar", FASTTEXT_CONFIDENCE_THRESHOLD),
     Prediction("ar", FASTTEXT_CONFIDENCE_THRESHOLD - 10),
     Prediction("en", 90), Prediction("fr", 90)}

(* the model answers only where it is used and can be loaded                *)
PredictionsFor(services) ==
    IF services.use_fasttext /\ services.model_available
       THEN PredictionSamples ELSE {Prediction("en", 90)}

(* toc_page and page_offset of the upload form; toc_page 0 is None          *)
HintSamples == {<<0, 0>>, <<1, 0>>, <<1, 10>>, <<2, 0>>}

PipelineInput(kind, doc, services, prediction, hint, with_text) ==
    [kind |-> kind, doc |-> doc, services |-> services,
     prediction |-> prediction, toc_page |-> hint[1],
     page_offset |-> hint[2], with_text |-> with_text,
     num_pages |-> DocPages]

NoServices == Services(FALSE, FALSE, FALSE, FALSE)

Init ==
    /\ pc = "start"
    /\ parsed = NoEntries /\ cleaned = <<>> /\ report = NoReport
    /\ detection = NoDetection /\ detector = NewDetectors
    /\ calls = <<>> /\ first_run = NoReport
    /\ \/ \E d \in DocNames :
          /\ \A t \in DetectTexts(Reads[d]) : FloatExact(t, DocPages)
          /\ \/ \E sv \in ServiceSamples, h \in HintSamples :
                   \E pr \in PredictionsFor(sv) :
                      \/ input = PipelineInput("upload", d, sv, pr, h, TRUE)
                      \/ /\ h = <<0, 0>>
                         /\ input = PipelineInput("extractor", d, sv, pr, h,
                                                  TRUE)
             \/ \E with_text \in BOOLEAN, h \in {<<0, 0>>, <<1, 10>>} :
                   \/ input = PipelineInput("arabic_extractor", d, NoServices,
                                  Prediction("en", 90), h, with_text)
                   \/ /\ h = <<0, 0>>
                      /\ input = PipelineInput("english_extractor", d,
                                     NoServices, Prediction("en", 90), h,
                                     with_text)
       \/ \E ps \in SeqsBetween(ParagraphSamples, 0, MaxParagraphs - 1) :
             input = RangesInput("headings", <<>>, <<>>, <<>>, ps, TRUE, 0,
                                 DocPages)
       \/ input = RangesInput("headings", <<>>, <<>>, <<>>, <<>>, FALSE, 0,
                              DocPages)

(* the request's document as the readers see it                             *)
Doc == Reads[input.doc]

(* language_detector.detect(pdf_bytes) in the upload route                  *)
UploadDetect ==
    /\ pc = "start" /\ input.kind = "upload"
    /\ \E d \in {detect(Doc, input.services, input.prediction,
                       detector.upload)} :
          /\ detection' = [language |-> d.language, text |-> d.text,
                           azure_result |-> d.azure_result]
          /\ detector' = [detector EXCEPT !.upload = d.detector]
          /\ calls' = calls \o d.calls
    /\ pc' = "upload_detected"
    /\ UNCHANGED <<input, parsed, cleaned, report, first_run>>

(* the OCR result handed to ArabicTocExtractor.extract by the upload route  *)
AzureResult(pdf, present) ==
    [present |-> present, tables |-> pdf.tables,
     total_pages |-> pdf.ocr_page_count]

(* analyzer.analyze in the upload route rejects the container: HTTP 400     *)
UploadInvalidPdf ==
    /\ pc = "upload_detected" /\ ~Doc.openable
    /\ pc' = "invalid_pdf"
    /\ UNCHANGED <<input, parsed, cleaned, report, detection, detector, calls,
                   first_run>>

(* the Arabic branch of the upload route: ArabicTocExtractor.extract with   *)
(* the caller's hints; an exception of the extractor leaves the route       *)
UploadArabicExtract ==
    /\ pc = "upload_detected" /\ Doc.openable
    /\ detection.language = "arabic" /\ detection.text # <<>>
    /\ \E r \in {arabic_extract(detection.text, input.toc_page,
                       AzureResult(Doc, detection.azure_result),
                       input.page_offset)} :
          /\ report' = r.report
          /\ cleaned' = r.cleaned
          /\ calls' = calls \o r.attempts
          /\ pc' = IF r.report = NoReport THEN "raised"
                   ELSE "upload_extracted"
    /\ UNCHANGED <<input, parsed, detection, detector, first_run>>

(* the page_end loop of the upload route                                    *)
UploadFixPageRanges ==
    /\ pc = "upload_extracted"
    /\ report' = fix_page_ranges(report, Doc.page_count)
    /\ pc' = "fixed"
    /\ UNCHANGED <<input, cleaned, unused_by_builders>>

(* TocExtractor.extract, language detection: called directly or from the    *)
(* else branch of the upload route                                          *)
ExtractorDetect ==
    /\ \/ pc = "start" /\ input.kind = "extractor"
       \/ /\ pc = "upload_detected" /\ Doc.openable
          /\ ~(detection.language = "arabic" /\ detection.text # <<>>)
    /\ \E d \in {detect(Doc, input.services, input.prediction,
                       detector.extractor)} :
          /\ detection' = [language |-> d.language, text |-> d.text,
                           azure_result |-> d.azure_result]
          /\ detector' = [detector EXCEPT !.extractor = d.detector]
          /\ calls' = calls \o d.calls
    /\ pc' = "detected"
    /\ UNCHANGED <<input, parsed, cleaned, report, first_run>>

(* TocExtractor.extract, fitz.open rejects the container: HTTP 400          *)
ExtractorInvalidPdf ==
    /\ pc = "detected" /\ ~Doc.openable
    /\ pc' = "invalid_pdf"
    /\ UNCHANGED <<input, parsed, cleaned, report, detection, detector, calls,
                   first_run>>

(* TocExtractor.extract, the Arabic branch                                  *)
ExtractorArabic ==
    /\ pc = "detected" /\ Doc.openable /\ detection.language = "arabic"
    /\ \E r \in {extractor_arabic(detection.text, input.num_pages)} :
          /\ report' = r.report
          /\ cleaned' = r.cleaned
          /\ calls' = calls \o r.attempts
    /\ pc' = "extracted"
    /\ UNCHANGED <<input, parsed, detection, detector, first_run>>

(* TocExtractor.extract, the English branch                                 *)
ExtractorEnglish ==
    /\ pc = "detected" /\ Doc.openable /\ detection.language # "arabic"
    /\ \E r \in {extractor_english(Doc, detection.text)} :
          /\ report' = r.report
          /\ calls' = calls \o r.attempts
    /\ pc' = "extracted"
    /\ UNCHANGED <<input, parsed, cleaned, detection, detector, first_run>>

(* ArabicTocExtractor.extract called on a text, with or without hints       *)
ArabicExtractorCall ==
    /\ pc = "start" /\ input.kind = "arabic_extractor"
    /\ \E pdf \in {Doc} :
       \E r \in {arabic_extract(
                       IF input.with_text THEN pdf.azure_full ELSE <<>>,
                       input.toc_page,
                       AzureResult(pdf, input.toc_page # 0),
                       input.page_offset)} :
          /\ report' = r.report
          /\ cleaned' = r.cleaned
          /\ calls' = calls \o r.attempts
          /\ pc' = IF r.report = NoReport THEN "raised" ELSE "returned"
    /\ UNCHANGED <<input, parsed, detection, detector, first_run>>

(* EnglishTocExtractor.extract called on a text                             *)
EnglishExtractorCall ==
    /\ pc = "start" /\ input.kind = "english_extractor"
    /\ \E text \in {IF input.with_text THEN Doc.pymupdf_full ELSE <<>>} :
          report' = english_extract(FoundMatches[text], Len(text),
                                    input.num_pages)
    /\ calls' = calls \o <<"english_pattern">>
    /\ pc' = "returned"
    /\ UNCHANGED <<input, parsed, cleaned, detection, detector, first_run>>

(* a later request on the uploaded document (the sections export of the    *)
(* upload router, the Markdown, HTML, generate-all and chunks routes): it   *)
(* reads _last_sections_report, which the upload stored, and neither the    *)
(* detector nor an extractor                                                *)
MaxRequests == 2

CachedReads ==
    Cardinality({i \in 1..Len(calls) : calls[i] = "cached_sections"})

ServeCached ==
    /\ pc = "fixed" /\ input.kind = "upload"
    /\ CachedReads < MaxRequests
    /\ calls' = calls \o <<"cached_sections">>
    /\ UNCHANGED <<pc, input, parsed, cleaned, report, detection, detector,
                   first_run>>

(* the same request once more: same bytes, hints and services, the two      *)
(* detectors as the first run left them                                     *)
RunAgain ==
    /\ pc = "fixed" /\ first_run = NoReport
    /\ input.kind \in {"upload", "extractor"}
    /\ first_run' = report
    /\ pc' = "start"
    /\ report' = NoReport /\ cleaned' = <<>>
    /\ detection' = NoDetection /\ calls' = <<>>
    /\ UNCHANGED <<input, parsed, detector>>

Next ==
    \/ UploadDetect
    \/ UploadInvalidPdf
    \/ UploadArabicExtract
    \/ UploadFixPageRanges
    \/ ExtractorDetect
    \/ ExtractorInvalidPdf
    \/ ExtractorArabic
    \/ ExtractorEnglish
    \/ FixPageRanges
    \/ ArabicExtractorCall
    \/ EnglishExtractorCall
    \/ GenerateSections
    \/ ServeCached
    \/ RunAgain

Spec == Init /\ [][Next]_vars

----------------------------------------------------------------------------
(* ChunkerService: a page is PageInfo [page, has_text, text], text <<>> for *)
(* None; texts are sequences of code points                                 *)

PARAGRAPH_BREAK == <<NL, NL>>
IMAGE_PAGES_PER_CHUNK == 10
FALLBACK_PAGES_PER_CHUNK == 5

(* first index from i on that holds whitespace (Len + 1 if none)            *)
RECURSIVE WordEnd(_, _)
WordEnd(text, i) ==
    IF i > Len(text) THEN i
    ELSE IF text[i] \in Whitespace THEN i
    ELSE WordEnd(text, i + 1)

(* text.split() from index i on                                             *)
RECURSIVE WordsFrom(_, _)
WordsFrom(text, i) ==
    LET rest(start) ==
            IF start > Len(text) THEN <<>>
            ELSE LET more(stop) ==
                         <<SubSeq(text, start, stop - 1)>>
                             \o WordsFrom(text, stop)
                 IN more(WordEnd(text, start))
    IN rest(FirstKept(text, i))

Words(text) == WordsFrom(text, 1)

(* sep.join(parts)                                                          *)
RECURSIVE Join(_, _)
Join(parts, sep) ==
    IF parts = <<>> THEN <<>>
    ELSE IF Len(parts) = 1 THEN parts[1]
    ELSE parts[1] \o sep \o Join(Tail(parts), sep)

(* first index from i on where two newlines stand (0 if none)               *)
RECURSIVE BreakFrom(_, _)
BreakFrom(text, i) ==
    IF i + 1 > Len(text) THEN 0
    ELSE IF text[i] = NL /\ text[i + 1] = NL THEN i
    ELSE BreakFrom(text, i + 1)

(* text.split("\n\n") from index i on                                       *)
RECURSIVE SplitParagraphsFrom(_, _)
SplitParagraphsFrom(text, i) ==
    LET cut(at) ==
            IF at = 0 THEN <<SubSeq(text, i, Len(text))>>
            ELSE <<SubSeq(text, i, at - 1)>>
                     \o SplitParagraphsFrom(text, at + Len(PARAGRAPH_BREAK))
    IN cut(BreakFrom(text, i))

(* ChunkerService._get_section_pages                                        *)
get_section_pages(section, pages) ==
    SelectSeq(pages, LAMBDA p : section.page_start <= p.page
                                   /\ p.page <= section.page_end)

(* ChunkerService._join_page_content                                        *)
join_page_content(pages) ==
    LET with_text == SelectSeq(pages, LAMBDA p : p.has_text)
    IN Strip(Join([i \in 1..Len(with_text) |-> with_text[i].text],
                  PARAGRAPH_BREAK))

(* ChunkerService._count_words                                              *)
count_words(text) == Len(Words(text))

ChunkInfo(section, index, page_start, page_end, content, word_count) ==
    [chunk_id |-> <<section.section_id, index>>,
     section_id |-> section.section_id, section_title |-> section.title,
     chunk_index |-> index, page_start |-> page_start, page_end |-> page_end,
     content |-> content, word_count |-> word_count,
     char_count |-> Len(content)]

ChunkingReport(chunks, strategy) ==
    [total_chunks |-> Len(chunks), chunks |-> chunks, strategy |-> strategy]

(* the loop of ChunkerService._split_section from paragraphs[i] on, and the *)
(* final chunk after it                                                     *)
RECURSIVE split_loop(_, _, _, _, _, _, _, _)
split_loop(section, paragraphs, i, current_chunk, current_words, chunk_index, chunks, max_words) ==
    IF i > Len(paragraphs)
       THEN IF current_chunk # <<>>
               THEN Append(chunks,
                        ChunkInfo(section, chunk_index, section.page_start,
                                  section.page_end,
                                  Join(current_chunk, PARAGRAPH_BREAK),
                                  current_words))
               ELSE chunks
    ELSE LET step(para, para_words) ==
                 IF current_chunk # <<>>
                       /\ current_words + para_words > max_words
                    THEN split_loop(section, paragraphs, i + 1, <<para>>,
                             para_words, chunk_index + 1,
                             Append(chunks,
                                 ChunkInfo(section, chunk_index,
                                     section.page_start, section.page_end,
                                     Join(current_chunk, PARAGRAPH_BREAK),
                                     current_words)),
                             max_words)
                    ELSE split_loop(section, paragraphs, i + 1,
                             Append(current_chunk, para),
                             current_words + para_words, chunk_index, chunks,
                             max_words)
         IN step(paragraphs[i], count_words(paragraphs[i]))

(* a split that loses the chunk still open when the paragraphs end          *)
split_section_drops_last(section, content, max_words) ==
    LET all_but_last(chunks) == SubSeq(chunks, 1, Len(chunks) - 1)
    IN all_but_last(split_loop(section, SplitParagraphsFrom(content, 1), 1,
                               <<>>, 0, 0, <<>>, max_words))

(* ChunkerService._split_section                                            *)
split_section(section, content, max_words) ==
    split_loop(section, SplitParagraphsFrom(content, 1), 1, <<>>, 0, 0, <<>>,
               max_words)

(* one chunk per section whatever its size                                  *)
section_chunks_never_splits(section, pages, split_large, max_words) ==
    LET whole(section_content) ==
            <<ChunkInfo(section, 0, section.page_start, section.page_end,
                        section_content, count_words(section_content))>>
    IN whole(join_page_content(get_section_pages(section, pages)))

(* the chunks chunk_by_sections makes of one section                        *)
section_chunks(section, pages, split_large, max_words) ==
    LET chunked(section_content, word_count) ==
            IF split_large /\ word_count > max_words
               THEN split_section(section, section_content, max_words)
               ELSE <<ChunkInfo(section, 0, section.page_start,
                                section.page_end, section_content,
                                word_count)>>
        counted(section_content) ==
            chunked(section_content, count_words(section_content))
    IN counted(join_page_content(get_section_pages(section, pages)))

(* ChunkerService.chunk_by_sections                                         *)
RECURSIVE chunk_by_sections(_, _, _, _)
chunk_by_sections(sections, pages, split_large, max_words) ==
    IF sections = <<>> THEN <<>>
    ELSE section_chunks(Head(sections), pages, split_large, max_words)
            \o chunk_by_sections(Tail(sections), pages, split_large,
                                 max_words)

(* a page chunker that leaves out a last chunk of fewer pages               *)
RECURSIVE chunk_by_pages_full_only(_, _, _)
chunk_by_pages_full_only(pages, pages_per_chunk, i) ==
    IF i + pages_per_chunk > Len(pages) THEN <<>>
    ELSE LET chunk_pages == SubSeq(pages, i + 1, i + pages_per_chunk)
             content == join_page_content(chunk_pages)
             chunk_index == i \div pages_per_chunk
         IN <<[chunk_id |-> <<"page", chunk_index>>, section_id |-> "pages",
               section_title |-> <<"Pages", chunk_pages[1].page,
                                   chunk_pages[Len(chunk_pages)].page>>,
               chunk_index |-> chunk_index,
               page_start |-> chunk_pages[1].page,
               page_end |-> chunk_pages[Len(chunk_pages)].page,
               content |-> content, word_count |-> count_words(content),
               char_count |-> Len(content)]>>
            \o chunk_by_pages_full_only(pages, pages_per_chunk,
                                        i + pages_per_chunk)

(* ChunkerService.chunk_by_pages from pages[i + 1] on (i is the loop's      *)
(* 0-based start)                                                           *)
RECURSIVE chunk_by_pages(_, _, _)
chunk_by_pages(pages, pages_per_chunk, i) ==
    IF i >= Len(pages) THEN <<>>
    ELSE LET chunk_pages == SubSeq(pages, i + 1,
                                   Min(i + pages_per_chunk, Len(pages)))
             content == join_page_content(chunk_pages)
             page_start == chunk_pages[1].page
             page_end == chunk_pages[Len(chunk_pages)].page
             chunk_index == i \div pages_per_chunk
         IN <<[chunk_id |-> <<"page", chunk_index>>, section_id |-> "pages",
               section_title |-> <<"Pages", page_start, page_end>>,
               chunk_index |-> chunk_index, page_start |-> page_start,
               page_end |-> page_end, content |-> content,
               word_count |-> count_words(content),
               char_count |-> Len(content)]>>
            \o chunk_by_pages(pages, pages_per_chunk, i + pages_per_chunk)

(* the classification PDFAnalyzer.analyze gives the pages                   *)
classification(pages) ==
    IF \A i \in 1..Len(pages) : ~pages[i].has_text THEN "image_only"
    ELSE IF \A i \in 1..Len(pages) : pages[i].has_text THEN "text_only"
    ELSE "mixed"

(* a choice that looks at the sections before the classification           *)
smart_chunk_prefers_sections(sections, pages, analysis, max_words) ==
    IF Len(sections) > 1
       THEN ChunkingReport(chunk_by_sections(sections, pages, TRUE,
                                             max_words),
                           "section-based")
    ELSE IF analysis = "image_only"
       THEN ChunkingReport(chunk_by_pages(pages, IMAGE_PAGES_PER_CHUNK, 0),
                           "page-based")
    ELSE ChunkingReport(chunk_by_pages(pages, FALLBACK_PAGES_PER_CHUNK, 0),
                        "page-based")

(* ChunkerService.smart_chunk                                               *)
smart_chunk(sections, pages, analysis, max_words) ==
    IF analysis = "image_only"
       THEN ChunkingReport(chunk_by_pages(pages, IMAGE_PAGES_PER_CHUNK, 0),
                           "page-based")
    ELSE IF Len(sections) > 1
       THEN ChunkingReport(chunk_by_sections(sections, pages, TRUE,
                                             max_words),
                           "section-based")
    ELSE ChunkingReport(chunk_by_pages(pages, FALLBACK_PAGES_PER_CHUNK, 0),
                        "page-based")

----------------------------------------------------------------------------
(* SpecChunks: the chunker on small page lists; the chunking report is kept *)
(* in report                                                                *)

MaxTextPages == 3

(* page texts of the words a, b, c, d, e: one paragraph, two paragraphs, a  *)
(* paragraph of four words, three newlines in a row, an empty paragraph, a  *)
(* page of whitespace, and no text                                          *)
PageTextSamples ==
    {<<97, SPACE, 98>>,
     <<97, NL, NL, 98, SPACE, 99>>,
     <<97, SPACE, 98, SPACE, 99, SPACE, 100, NL, NL, 101>>,
     <<97, NL, NL, NL, 98>>,
     <<97, NL, NL, NL, NL, 98, SPACE, 99, SPACE, 100>>,
     <<NL>>,
     <<>>}

(* textless pages after the text pages                                      *)
PaddingSamples == {0, 8}

MaxWordsSamples == {1, 3}

(* PDFAnalyzer.analyze: the PageInfo list of the page texts                 *)
PageInfos(texts) ==
    [i \in 1..Len(texts) |->
        [page |-> i, has_text |-> Len(texts[i]) > 0, text |-> texts[i]]]

Blank(k) == [i \in 1..k |-> <<>>]

(* the sections EnglishTocExtractor.extract makes of "Part 1: Basics" at    *)
(* the start of the text and "Chapter 1: Intro" and "Chapter 2: Methods"    *)
(* further on: two of them carry the number 1                               *)
PatternSections ==
    english_extract(
        <<[number |-> [parts |-> <<1>>, alpha |-> <<>>], title |-> "Basics",
           char_pos |-> 0],
          [number |-> [parts |-> <<1>>, alpha |-> <<>>], title |-> "Intro",
           char_pos |-> 20],
          [number |-> [parts |-> <<2>>, alpha |-> <<>>], title |-> "Methods",
           char_pos |-> 40]>>,
        PatternTextLen, MaxTextPages).sections

(* section lists over the pages: none, the whole document, two sections     *)
(* side by side, two sections sharing page 2, a section past the last page, *)
(* sections found by the heading patterns                                   *)
SectionListSamples ==
    {<<>>,
     PatternSections,
     <<SectionInfo(<<1>>, "T1", 1, 1, MaxTextPages)>>,
     <<SectionInfo(<<1>>, "T1", 1, 1, 1),
       SectionInfo(<<2>>, "T2", 1, 2, MaxTextPages)>>,
     <<SectionInfo(<<1>>, "T1", 1, 1, 2),
       SectionInfo(<<2>>, "T2", 1, 2, 2)>>,
     <<SectionInfo(<<1>>, "T1", 1, 1, 2),
       SectionInfo(<<2>>, "T2", 1, MaxTextPages + 20, MaxTextPages + 30)>>}

ChunksInput(kind, pages, sections, split_large, max_words) ==
    [kind |-> kind, pages |-> pages, sections |-> sections,
     split_large |-> split_large, max_words |-> max_words]

ChunksInit ==
    /\ pc = "start"
    /\ parsed = NoEntries /\ cleaned = <<>> /\ report = NoReport
    /\ detection = NoDetection /\ detector = NewDetectors
    /\ calls = <<>> /\ first_run = NoReport
    /\ \E texts \in SeqsBetween(PageTextSamples, 0, MaxTextPages),
          k \in PaddingSamples, sections \in SectionListSamples,
          max_words \in MaxWordsSamples :
          \E pages \in {PageInfos(texts \o Blank(k))} :
             \/ \E split_large \in BOOLEAN :
                   input = ChunksInput("sections", pages, sections,
                                       split_large, max_words)
             \/ input = ChunksInput("smart", pages, sections, TRUE,
                                    max_words)
             \/ /\ sections = <<>>
                /\ input = ChunksInput("pages", pages, sections, TRUE,
                                       max_words)

(* GET /chunks with strategy sections, and chunk_by_sections without        *)
(* splitting                                                                *)
ChunkBySections ==
    /\ pc = "start" /\ input.kind = "sections"
    /\ report' = ChunkingReport(
                     chunk_by_sections(input.sections, input.pages,
                                       input.split_large, input.max_words),
                     "section-based")
    /\ pc' = "chunked"
    /\ UNCHANGED <<input, cleaned, unused_by_builders>>

(* GET /chunks with strategy pages                                          *)
ChunkByPages ==
    /\ pc = "start" /\ input.kind = "pages"
    /\ report' = ChunkingReport(
                     chunk_by_pages(input.pages, FALLBACK_PAGES_PER_CHUNK, 0),
                     "page-based")
    /\ pc' = "chunked"
    /\ UNCHANGED <<input, cleaned, unused_by_builders>>

(* GET /chunks with strategy smart                                          *)
SmartChunk ==
    /\ pc = "start" /\ input.kind = "smart"
    /\ report' = smart_chunk(input.sections, input.pages,
                             classification(input.pages), input.max_words)
    /\ pc' = "chunked"
    /\ UNCHANGED <<input, cleaned, unused_by_builders>>

ChunksNext == ChunkBySections \/ ChunkByPages \/ SmartChunk

SpecChunks == ChunksInit /\ [][ChunksNext]_vars

----------------------------------------------------------------------------
(* Properties of the section builders (SpecRanges)                          *)

Fixed == pc = "fixed"

(* s is t with some elements left out, order kept                           *)
RECURSIVE IsSubsequence(_, _)
IsSubsequence(s, t) ==
    IF s = <<>> THEN TRUE
    ELSE IF t = <<>> THEN FALSE
    ELSE IF Head(s) = Head(t) THEN IsSubsequence(Tail(s), Tail(t))
    ELSE IsSubsequence(s, Tail(t))

(* the sections of one level, ordered by page_start (ties in list order)    *)
SectionStartKey(sec) == <<sec.page_start>>

SiblingsByStart(sections, level) ==
    StableSort(SelectSeq(sections, LAMBDA sec : sec.level = level),
               SectionStartKey)

Levels(sections) == {sections[i].level : i \in 1..Len(sections)}

(* C2: after page-range fixing every section of the returned result has     *)
(* page_start <= page_end, whatever the parsed pages, the caller's page     *)
(* offset and the page count are.                                           *)
C2_RangeInvariant ==
    Fixed => \A i \in 1..Len(report.sections) :
                report.sections[i].page_start <= report.sections[i].page_end

OutlineInPageOrder ==
    \A i \in 1..(Len(input.toc) - 1) : input.toc[i].page <= input.toc[i + 1].page

HasNeighbours(same_page) ==
    \E level \in Levels(report.sections) :
        LET sib == SiblingsByStart(report.sections, level)
        IN \E k \in 1..(Len(sib) - 1) :
              (sib[k].page_start = sib[k + 1].page_start) = same_page

C7_LastSectionEndsAtDocEnd ==
    (Fixed /\ input.kind = "arabic_text"
           /\ Len(cleaned) >= MIN_ARABIC_ENTRIES)
    => /\ report.bookmarks_found
       /\ Len(report.sections) = Len(cleaned)
       /\ report.sections[Len(report.sections)].page_end = input.num_pages

(* C9: _clean_entries keeps the entries in order and drops every entry      *)
(* whose page is below that of the last kept entry, so the kept pages never *)
(* decrease; of pages [5, 20, 35, 14] exactly the first three survive.      *)
C9_CleanedNonDecreasing ==
    (pc # "start" /\ input.kind = "arabic_text")
    => /\ IsSubsequence(cleaned, input.entries)
       /\ \A i \in 1..(Len(cleaned) - 1) :
             cleaned[i].page <= cleaned[i + 1].page
       /\ Pages(input.entries) = <<5, 20, 35, 14>>
             => cleaned = SubSeq(input.entries, 1, 3)

C9_Witness ==
    /\ pc = "extracted" /\ input.kind = "arabic_text"
    /\ Pages(input.entries) = <<5, 20, 35, 14>>
    /\ Pages(cleaned) = <<5, 20, 35>>

----------------------------------------------------------------------------
(* Properties of the parsers (SpecParse)                                    *)

(* the number a digit list denotes                                          *)
RECURSIVE DecimalValue(_)
DecimalValue(ds) ==
    IF ds = <<>> THEN 0
    ELSE Head(ds) * 10 ^ (Len(ds) - 1) + DecimalValue(Tail(ds))

(* the entries the model's input gives when the number is written in ASCII  *)
AsciiLines ==
    parse_toc_entries(SplitLineText(input.digits, "ascii", input.form))

AsciiCells ==
    table_cell_entry(SampleTitle, PageCell(input.digits, "ascii", input.form))

(* C10: a page number in Arabic-Indic glyphs parses to the integer its      *)
(* ASCII spelling parses to, which is the number the digits denote, in the  *)
(* split-line parser and in the table-cell parser; normalizing an           *)
(* ASCII-only string leaves it unchanged.                                   *)
C10_GlyphsParseAsAscii ==
    pc = "parsed" =>
       LET value == DecimalValue(input.digits)
           expected == IF MIN_PAGE <= value /\ value <= PAGE_END_SENTINEL
                          THEN <<[title |-> SampleTitle, page |-> value]>>
                          ELSE <<>>
           ascii_text == SplitLineText(input.digits, "ascii", input.form)
       IN /\ parsed.lines = AsciiLines /\ parsed.cells = AsciiCells
          /\ parsed.lines = expected /\ parsed.cells = expected
          /\ normalize_arabic_digits(ascii_text) = ascii_text

C10_Witness ==
    /\ pc = "parsed" /\ input.script = "arabic_indic"
    /\ input.digits = <<1, 2, 3, 4>>
    /\ parsed.lines = <<[title |-> SampleTitle, page |-> 1234]>>
    /\ parsed.cells = <<[title |-> SampleTitle, page |-> 1234]>>

----------------------------------------------------------------------------
(* Properties of the requests on the sample documents (Spec)                *)

(* a call of one of the four entry points has returned its report           *)
Returned == pc \in {"returned", "extracted", "upload_extracted", "fixed"}

(* the request went through LanguageDetector.detect                         *)
Detects == input.kind \in {"upload", "extractor"}

OneSectionSpanningAll(rep, num_pages) ==
    /\ Len(rep.sections) = 1
    /\ rep.sections[1].page_start = 1
    /\ rep.sections[1].page_end = num_pages

C4_NotFoundIsFallback ==
    (Fixed /\ ~report.bookmarks_found)
    => /\ OneSectionSpanningAll(report, input.num_pages)
       /\ report.strategy = "fallback"

(* C4 as amended: after range fixing, a result with found = false is the    *)
(* one-section fallback spanning pages 1 to num_pages or the accepted       *)
(* result of the English pattern extraction, which has two sections or      *)
(* more and is always reported with found = false; the results accepted     *)
(* from the outline, the Arabic text scan and the OCR tables always have    *)
(* found = true.                                                            *)
C4_NotFoundIsFallbackOrPattern ==
    Fixed
    => /\ report.strategy = "fallback"
          <=> (~report.bookmarks_found
                  /\ OneSectionSpanningAll(report, input.num_pages))
       /\ report.strategy = "english_pattern"
          <=> (~report.bookmarks_found /\ Len(report.sections) > 1)
       /\ report.strategy \in {"english_bookmarks", "azure_table",
                               "text_beginning", "text_end"}
          <=> report.bookmarks_found

(* the Arabic fallback with its 9999 placeholder went through the fix       *)
C4_Witness ==
    /\ Fixed /\ input.kind = "upload"
    /\ input.doc = "arabic_short_toc"
    /\ detection.language = "arabic"
    /\ ~report.bookmarks_found
    /\ report.sections[1].title = "Full Book"

(* C5: a second run of detection and extraction on the same bytes, with     *)
(* the same hints and the same services, gives the sections and the found   *)
(* flag of the first run.                                                   *)
C5_Deterministic ==
    (Fixed /\ first_run # NoReport)
    => /\ report.sections = first_run.sections
       /\ report.bookmarks_found = first_run.bookmarks_found

(* a second run that loaded nothing anew: the model and the OCR client of   *)
(* the first run are still there, and the result has several sections       *)
C5_Witness ==
    /\ Fixed /\ first_run # NoReport
    /\ input.kind = "upload"
    /\ detector.upload.fasttext_model /\ detector.upload.azure_client
    /\ Len(report.sections) > 1

(* C6: for a document classified as English whose outline has at least      *)
(* MIN_BOOKMARKS_OK entries, TocExtractor.extract returns found = true with *)
(* one section per outline entry in outline order, from the outline         *)
(* strategy and without running the pattern extraction; with fewer entries  *)
(* the outline is not used.                                                 *)
C6_OutlineUsedFromMinBookmarks ==
    (Detects /\ pc \in {"extracted", "fixed"}
             /\ detection.language = "english")
    => \A pdf \in {Doc} :
          IF Len(pdf.toc) >= MIN_BOOKMARKS_OK
             THEN /\ report.bookmarks_found
                  /\ report.strategy = "english_bookmarks"
                  /\ Len(report.sections) = Len(pdf.toc)
                  /\ \A i \in 1..Len(pdf.toc) :
                        /\ report.sections[i].title = pdf.toc[i].title
                        /\ report.sections[i].level = pdf.toc[i].level
                        /\ report.sections[i].page_start = pdf.toc[i].page
                  /\ \A i \in 1..Len(calls) : calls[i] # "english_pattern"
             ELSE report.strategy # "english_bookmarks"

(* the outline of exactly MIN_BOOKMARKS_OK entries was used although the    *)
(* text has headings the patterns match                                     *)
C6_Witness ==
    /\ Fixed /\ Detects /\ detection.language = "english"
    /\ input.doc = "english_min_outline"
    /\ Len(FoundMatches[detection.text]) >= MIN_SECTIONS
    /\ report.strategy = "english_bookmarks"
    /\ Len(report.sections) = MIN_BOOKMARKS_OK

(* what the OCR backend gives for the request's document                    *)
FromOcrBackend ==
    \A pdf \in {Doc} :
       /\ detection.text = pdf.azure_full
       /\ detection.language = LanguageByRatio[pdf.azure_full]
       /\ detection.azure_result
       /\ \A i \in 1..Len(calls) : calls[i] # "fasttext"

DetectReturned == Detects /\ pc \in {"upload_detected", "detected"}

(* C8: for a document that scan detection classifies as scanned,            *)
(* LanguageDetector.detect takes the language and the text from the OCR     *)
(* backend, whatever the quick detection would say.                         *)
C8_ScannedReadByOcr ==
    (DetectReturned /\ Doc.scanned) => FromOcrBackend

(* C8 as amended: for a document that scan detection classifies as          *)
(* scanned, LanguageDetector.detect takes the language and the text from    *)
(* the OCR backend, whatever the quick detection would say, when the OCR    *)
(* backend is configured and its call succeeds; otherwise it goes on to     *)
(* the FastText or the legacy detection.                                    *)
C8_ScannedReadByOcrWhenItAnswers ==
    (DetectReturned /\ Doc.scanned)
    => IF azure_answers(input.services)
          THEN FromOcrBackend
          ELSE /\ ~detection.azure_result
               /\ input.services.use_fasttext
                  <=> \E i \in 1..Len(calls) : calls[i] = "fasttext"

(* a scanned Arabic document read by the OCR backend while the quick        *)
(* detection is on and its model says English                               *)
C8_Witness ==
    /\ DetectReturned /\ input.doc = "arabic_scanned"
    /\ azure_answers(input.services)
    /\ input.services.use_fasttext /\ input.services.model_available
    /\ input.prediction.code = "en"
    /\ detection.language = "arabic" /\ detection.text # <<>>

----------------------------------------------------------------------------
(* Properties of the bookmark numbering (SpecRanges)                        *)

(* ".".join(str(n) for n in counters), the section_id as the code writes it *)
RECURSIVE section_id_text(_)
section_id_text(counters) ==
    IF counters = <<>> THEN <<>>
    ELSE IF Len(counters) = 1 THEN Glyphs(DigitsOf(counters[1]), "ascii")
    ELSE Glyphs(DigitsOf(counters[1]), "ascii") \o <<FULL_STOP>>
            \o section_id_text(Tail(counters))

(* the entries at level k among the first i that no later entry (up to i)   *)
(* of a shallower level has reset                                           *)
CountedAt(toc, i, k) ==
    Cardinality({j \in 1..i :
        /\ toc[j].level = k
        /\ \A m \in (j + 1)..i : toc[m].level >= k})

FromBookmarks ==
    /\ pc \in {"extracted", "fixed"} /\ input.kind = "english"
    /\ report.strategy = "english_bookmarks"

(* C11: the id of a bookmark-derived section comes from per-level counters: *)
(* visiting an entry at level L increments counter L and discards the       *)
(* counters deeper than L, so component k of the id counts the level-k      *)
(* entries since the last shallower entry, and the id written with dots has *)
(* as many components as the entry's level.                                 *)
C11_HierarchicalIds ==
    FromBookmarks
    => \A i \in 1..Len(input.toc) :
          /\ Len(report.sections[i].section_id) = input.toc[i].level
          /\ \A k \in 1..input.toc[i].level :
                report.sections[i].section_id[k] = CountedAt(input.toc, i, k)
          /\ Len(SplitOn(section_id_text(report.sections[i].section_id),
                         FULL_STOP)) = input.toc[i].level

(* levels 1, 1, 2, 2, 1 give the ids 1, 2, 2.1, 2.2, 3                     *)
C11_Witness ==
    /\ FromBookmarks
    /\ [i \in 1..Len(input.toc) |-> input.toc[i].level] = <<1, 1, 2, 2, 1>>
    /\ [i \in 1..Len(report.sections) |->
           section_id_text(report.sections[i].section_id)]
       = <<<<49>>, <<50>>, <<50, 46, 49>>, <<50, 46, 50>>, <<51>>>>

----------------------------------------------------------------------------
(* Properties of the chunker (SpecChunks)                                   *)

Chunked == pc = "chunked"

SectionBased == Chunked /\ report.strategy = "section-based"

(* " ".join(text.split()): whitespace runs become one space                 *)
Collapse(text) == Join(Words(text), <<SPACE>>)

(* the chunks of a section in the order of the report; sections found by    *)
(* the heading patterns may share their section_id, not id and title both   *)
ChunksOf(section) ==
    SelectSeq(report.chunks, LAMBDA c : /\ c.section_id = section.section_id
                                        /\ c.section_title = section.title)

Contents(chunks) == [i \in 1..Len(chunks) |-> chunks[i].content]

(* the texts of the pages in the section's range, in page order             *)
RangeTexts(section) ==
    LET in_range == SelectSeq(input.pages,
                        LAMBDA p : section.page_start <= p.page
                                      /\ p.page <= section.page_end)
    IN [i \in 1..Len(in_range) |-> in_range[i].text]

(* the chunks of every section, put together with sep between them and      *)
(* collapsed, are the collapsed page texts of the section's range           *)
Reconstructs(sep) ==
    \A s \in 1..Len(input.sections) :
       \A section \in {input.sections[s]} :
          Collapse(Join(Contents(ChunksOf(section)), sep))
             = Collapse(Join(RangeTexts(section), PARAGRAPH_BREAK))

(* C12: for every section, split or not, the contents of its chunks         *)
(* concatenated in chunk_index order and whitespace-collapsed equal the     *)
(* whitespace-collapsed join of the texts of the pages in its range.        *)
C12_ChunksConcatenated == SectionBased => Reconstructs(<<>>)

(* C12 as amended: for every section, split or not, the contents of its     *)
(* chunks joined in chunk_index order with a paragraph break (whitespace)   *)
(* between consecutive chunks and whitespace-collapsed equal the            *)
(* whitespace-collapsed join of the texts of the pages in its range; the    *)
(* chunk indexes of a section are 0, 1, 2, ... in that order.               *)
C12_ChunksJoinedByBreaks ==
    SectionBased
    => /\ Reconstructs(PARAGRAPH_BREAK)
       /\ \A s \in 1..Len(input.sections) :
             \A chunks \in {ChunksOf(input.sections[s])} :
                \A i \in 1..Len(chunks) : chunks[i].chunk_index = i - 1

(* a section of two pages split into three chunks                           *)
C12_Witness ==
    /\ SectionBased /\ input.split_large
    /\ Len(input.sections) = 1
    /\ Len(ChunksOf(input.sections[1])) = 3
    /\ Cardinality({i \in 1..Len(input.pages) : input.pages[i].has_text}) = 2

(* C13: with split_large on, every chunk of chunk_by_sections has           *)
(* word_count <= max_words unless it is a single paragraph that alone has   *)
(* more words than max_words, and word_count is the number of words of the  *)
(* chunk's content.                                                         *)
C13_ChunkSizeBound ==
    (SectionBased /\ input.split_large)
    => \A i \in 1..Len(report.chunks) :
          \A chunk \in {report.chunks[i]} :
             /\ chunk.word_count = Len(Words(chunk.content))
             /\ \/ chunk.word_count <= input.max_words
                \/ Len(SplitParagraphsFrom(chunk.content, 1)) = 1

(* a split whose chunks are an oversized paragraph alone and a chunk of     *)
(* several paragraphs within the bound                                      *)
C13_Witness ==
    /\ SectionBased /\ input.split_large
    /\ \E i \in 1..Len(report.chunks) :
          /\ report.chunks[i].word_count > input.max_words
          /\ report.chunks[i].chunk_index > 0
    /\ \E i \in 1..Len(report.chunks) :
          /\ report.chunks[i].word_count = input.max_words
          /\ Len(SplitParagraphsFrom(report.chunks[i].content, 1)) > 1

(* the chunks are runs of per_chunk consecutive pages, the last run short   *)
PageRuns(per_chunk) ==
    /\ report.strategy = "page-based"
    /\ Len(report.chunks)
          = (Len(input.pages) + per_chunk - 1) \div per_chunk
    /\ \A i \in 1..Len(report.chunks) :
          /\ report.chunks[i].page_start = (i - 1) * per_chunk + 1
          /\ report.chunks[i].page_end
                = Min(i * per_chunk, Len(input.pages))

(* C14: smart_chunk chunks an image-only document by pages, 10 pages per    *)
(* chunk, also when more than one section was extracted; any other document *)
(* with more than one section by sections with splitting; any other by      *)
(* pages, 5 pages per chunk.                                                *)
C14_StrategySelection ==
    (Chunked /\ input.kind = "smart")
    => IF \A i \in 1..Len(input.pages) : ~input.pages[i].has_text
          THEN PageRuns(IMAGE_PAGES_PER_CHUNK)
       ELSE IF Len(input.sections) > 1
          THEN /\ report.strategy = "section-based"
               /\ report.chunks
                     = chunk_by_sections(input.sections, input.pages, TRUE,
                                         input.max_words)
       ELSE PageRuns(FALLBACK_PAGES_PER_CHUNK)

(* eight textless pages with two sections go into one chunk of pages 1..8   *)
C14_Witness ==
    /\ Chunked /\ input.kind = "smart"
    /\ Len(input.pages) = 8 /\ Len(input.sections) = 2
    /\ Len(report.chunks) = 1
    /\ report.chunks[1].page_end = 8

----------------------------------------------------------------------------
(* Properties of the failure handling (Spec)                                *)

(* the request ended with an exception instead of a report                  *)
Failed == pc \in {"invalid_pdf", "raised"}

(* C15: classification plus extraction ends with an exception only for a    *)
(* document whose container cannot be opened, and then with the HTTP 400    *)
(* of the invalid input; for every document that can be opened, whatever    *)
(* the OCR backend and the quick classifier do, no exception leaves the     *)
(* extraction.                                                              *)
C15_OnlyInvalidInputSurfaces ==
    Failed => (pc = "invalid_pdf" /\ ~Doc.openable)

----------------------------------------------------------------------------
(* Properties of the upload and the requests after it (Spec)                *)

(* the strategies an extractor logs when it attempts them                   *)
StrategyNames ==
    {"azure_table", "text_beginning", "text_end", "english_bookmarks",
     "english_pattern"}

Runs(event) == Cardinality({i \in 1..Len(calls) : calls[i] = event})

(* C16: across one upload and the requests that follow it,                  *)
(* LanguageDetector.detect (which starts with the scan check) runs at most  *)
(* once, no extraction strategy is attempted twice, and once a request has  *)
(* been served from the cached section list nothing but cached reads        *)
(* follows.                                                                 *)
C16_DerivedOnce ==
    input.kind = "upload"
    => /\ Runs("is_scanned") <= 1
       /\ \A name \in StrategyNames : Runs(name) <= 1
       /\ \A i \in 1..Len(calls) : \A j \in i..Len(calls) :
             calls[i] = "cached_sections" => calls[j] = "cached_sections"

----------------------------------------------------------------------------
(* Properties of ArabicTocExtractor.extract (Spec)                          *)

(* a direct call of ArabicTocExtractor.extract has returned                 *)
ArabicReturned == pc = "returned" /\ input.kind = "arabic_extractor"

(* C17: what _fallback_section gives, and with it extract on an empty       *)
(* text, is a report with bookmarks_found = False and exactly one section,  *)
(* titled "Document", with page_start 1.                                    *)
C17_ArabicFallbackIsDocument ==
    (ArabicReturned /\ (report.strategy = "fallback" \/ ~input.with_text))
    => /\ ~report.bookmarks_found
       /\ Len(report.sections) = 1
       /\ report.sections[1].title = "Document"
       /\ report.sections[1].page_start = 1

----------------------------------------------------------------------------
(* Properties of the Arabic acceptance bar (SpecRanges)                     *)

(* the text scan or the table extraction has decided on its entries         *)
ArabicDecided ==
    pc = "extracted" /\ input.kind \in {"arabic_text", "arabic_table"}

(* C18: the Arabic extraction reports found = true exactly when at least    *)
(* MIN_ARABIC_ENTRIES (5) entries survived the monotonic cleaning; the      *)
(* result then has one section for each surviving entry, so at least 5;     *)
(* in every other case the result is the single fallback section with       *)
(* found = false.                                                           *)
C18_ArabicAcceptanceBar ==
    ArabicDecided
    => /\ report.bookmarks_found <=> Len(cleaned) >= MIN_ARABIC_ENTRIES
       /\ report.bookmarks_found
          => /\ Len(report.sections) = Len(cleaned)
             /\ Len(report.sections) >= MIN_ARABIC_ENTRIES
       /\ ~report.bookmarks_found => report = arabic_fallback_section

(* six table entries were parsed and cleaning left exactly five, which is   *)
(* accepted                                                                 *)
C18_Witness ==
    /\ ArabicDecided /\ input.kind = "arabic_table"
    /\ Len(input.entries) = MIN_ARABIC_ENTRIES + 1
    /\ Len(cleaned) = MIN_ARABIC_ENTRIES
    /\ report.bookmarks_found
    /\ Len(report.sections) = MIN_ARABIC_ENTRIES

----------------------------------------------------------------------------
(* Properties of the order of the strategies (Spec)                         *)

(* an extraction has ended with a report                                    *)
Extracted ==
    /\ pc \in {"upload_extracted", "extracted", "returned", "fixed"}
    /\ input.kind \in {"upload", "extractor", "arabic_extractor",
                       "english_extractor"}

(* the strategies the extraction attempted, in the order of the attempts    *)
Attempts == SelectSeq(calls, LAMBDA c : c \in StrategyNames)

(* the place of a strategy in the order of its extractor                    *)
Rank(name) ==
    CASE name = "azure_table" -> 1
      [] name = "text_beginning" -> 2
      [] name = "text_end" -> 3
      [] name = "english_bookmarks" -> 4
      [] name = "english_pattern" -> 5

(* the extraction went through ArabicTocExtractor or the Arabic branch      *)
ArabicPath ==
    \/ input.kind = "arabic_extractor"
    \/ input.kind \in {"upload", "extractor"} /\ detection.language = "arabic"

(* the text the extraction worked on                                        *)
ExtractionText ==
    IF input.kind = "arabic_extractor"
       THEN IF input.with_text THEN Doc.azure_full ELSE <<>>
    ELSE IF input.kind = "english_extractor"
       THEN IF input.with_text THEN Doc.pymupdf_full ELSE <<>>
    ELSE detection.text

(* the caller gave the TOC page and the OCR result to the Arabic extractor  *)
TableGiven ==
    /\ input.toc_page # 0
    /\ \/ input.kind = "arabic_extractor"
       \/ input.kind = "upload" /\ detection.azure_result

(* the strategies that apply to the request                                 *)
Applicable ==
    IF input.kind = "english_extractor" THEN {"english_pattern"}
    ELSE IF ArabicPath
       THEN IF ExtractionText = <<>> THEN {}
            ELSE {"text_beginning", "text_end"}
                    \cup (IF TableGiven THEN {"azure_table"} ELSE {})
    ELSE {"english_bookmarks"}
            \cup (IF ExtractionText # <<>> \/ Strip(Doc.pymupdf_full) # <<>>
                     THEN {"english_pattern"} ELSE {})

(* the strategy clears its acceptance bar on the request                    *)
Clears(name) ==
    CASE name = "azure_table" ->
            extract_from_table(input.toc_page,
                AzureResult(Doc, TRUE), input.page_offset) # <<>>
      [] name = "text_beginning" ->
            /\ TocEntries[ExtractionText].begin_found
            /\ Len(TocEntries[ExtractionText].begin_entries)
                  >= MIN_ARABIC_ENTRIES
      [] name = "english_bookmarks" ->
            Len(extract_bookmarks(Doc.toc, Doc.page_count))
               >= MIN_BOOKMARKS_OK
      [] OTHER -> FALSE

ArabicWithTables ==
    /\ Extracted /\ ArabicPath /\ TableGiven
    /\ pc \in {"upload_extracted", "returned"}
    /\ ExtractionText # <<>>

(* C20: for an Arabic document the keyword-anchored text scan is attempted  *)
(* before the table extraction, and when both clear their bar the sections  *)
(* returned are those of the text scan.                                     *)
C20_ScanBeforeTables ==
    ArabicWithTables
    => /\ \A i \in 1..Len(Attempts) : \A j \in 1..Len(Attempts) :
             (Attempts[i] = "azure_table"
                 /\ Attempts[j] \in {"text_beginning", "text_end"})
             => j < i
       /\ (Clears("azure_table") /\ Clears("text_beginning"))
          => /\ report.strategy = "text_beginning"
             /\ report.sections =
                   create_sections(TocEntries[ExtractionText].begin_entries,
                                   input.page_offset)

(* C20 as amended: for an Arabic document with a TOC page hint and an OCR   *)
(* result the table extraction is attempted first and the text scan only    *)
(* after it failed its bar; when both clear their bar the sections          *)
(* returned are those of the tables and the text is not scanned.            *)
C20_TablesBeforeScan ==
    ArabicWithTables
    => /\ Attempts # <<>> /\ Attempts[1] = "azure_table"
       /\ Len(Attempts) > 1 => ~Clears("azure_table")
       /\ (Clears("azure_table") /\ Clears("text_beginning"))
          => /\ report.strategy = "azure_table"
             /\ Attempts = <<"azure_table">>
             /\ report.sections =
                   extract_from_table(input.toc_page, AzureResult(Doc, TRUE),
                                      input.page_offset)

(* an upload with the TOC page of a document whose tables and whose text    *)
(* both give a valid TOC: the sections are those of the tables              *)
C20_Witness ==
    /\ ArabicWithTables /\ input.kind = "upload"
    /\ input.doc = "arabic_toc"
    /\ Clears("azure_table") /\ Clears("text_beginning")
    /\ report.strategy = "azure_table"

----------------------------------------------------------------------------
(* Properties of the monotonic cleaning (SpecRanges)                        *)

(* _clean_entries has run on the entries of the text scan                   *)
TextCleaned == pc = "extracted" /\ input.kind = "arabic_text"

(* the entry at index i of the input is in the cleaned list (the titles of  *)
(* the entries are pairwise distinct)                                       *)
KeptEntry(i) == \E k \in 1..Len(cleaned) : cleaned[k] = input.entries[i]

(* the page of the last entry kept before index i, 0 if none was kept       *)
LastKeptPage(i) ==
    LET before == {j \in 1..(i - 1) : KeptEntry(j)}
    IN IF before = {} THEN 0
       ELSE input.entries[CHOOSE j \in before : \A m \in before : m <= j].page

(* C21: the cleaned list is a prefix of the input list: once an entry is    *)
(* rejected, no later entry is kept.                                        *)
C21_CleanedIsPrefix ==
    TextCleaned => cleaned = SubSeq(input.entries, 1, Len(cleaned))

(* C21 as amended: the cleaning skips a rejected entry and goes on: the     *)
(* cleaned list keeps the order of the input, and an entry is kept exactly  *)
(* when its page is not below the page of the last entry kept before it     *)
(* and not more than MAX_PAGE_JUMP (500) above it; the first entry is       *)
(* always kept. Entries after a rejected one are therefore kept when they   *)
(* are in order again.                                                      *)
C21_CleaningSkipsAndGoesOn ==
    TextCleaned
    => /\ IsSubsequence(cleaned, input.entries)
       /\ \A i \in 1..Len(input.entries) :
             KeptEntry(i)
             <=> /\ input.entries[i].page >= LastKeptPage(i)
                 /\ \/ LastKeptPage(i) = 0
                    \/ input.entries[i].page - LastKeptPage(i)
                          <= MAX_PAGE_JUMP

(* pages 5, 20, 35, 14, 29, 44: the entries on pages 14 and 29 are          *)
(* rejected and the entry on page 44 after them is kept                     *)
C21_Witness ==
    /\ TextCleaned
    /\ Len(input.entries) = 6 /\ Len(cleaned) = 4
    /\ input.entries[4].page < input.entries[3].page
    /\ cleaned[4] = input.entries[6]

----------------------------------------------------------------------------
(* Properties of LanguageDetector.detect (Spec)                             *)

(* the calls of the detect that returned last                               *)
DetectCalls ==
    LET starts == {i \in 1..Len(calls) : calls[i] = "is_scanned"}
    IN SubSeq(calls, CHOOSE i \in starts : \A j \in starts : j <= i,
              Len(calls))

Called(event) == \E i \in 1..Len(DetectCalls) : DetectCalls[i] = event

(* detect went into _detect_with_fasttext                                   *)
QuickPath == DetectReturned /\ Called("fasttext")

(* _detect_legacy read its sample                                           *)
LegacyRead == Called("azure_sample") \/ Called("pymupdf_sample")

(* C22: the quick detection commits to its language only when the model     *)
(* answered ar or en for a sampled text with a confidence strictly above    *)
(* FASTTEXT_CONFIDENCE_THRESHOLD; at or below the threshold, for another    *)
(* language code and when no text could be sampled, the legacy detection    *)
(* decides the language by the code-point ratio.                            *)
C22_CommitsOnlyAboveThreshold ==
    QuickPath
    => IF /\ input.services.model_available
          /\ Doc.quick_sample # <<>>
          /\ input.prediction.code \in {"ar", "en"}
          /\ input.prediction.confidence > FASTTEXT_CONFIDENCE_THRESHOLD
          THEN ~LegacyRead
          ELSE /\ LegacyRead
               /\ detection.language = LanguageByRatio[detection.text]

(* detect has returned for a document that is not scanned                   *)
NonScanned == DetectReturned /\ Doc.openable /\ ~Doc.scanned

(* the text and the OCR result detect returned are the local reader's       *)
FromLocalReader ==
    /\ detection.text \in {Doc.pymupdf_full, Doc.pymupdf_sample}
    /\ ~detection.azure_result

(* C23: for a document that is not scanned, an English result carries the   *)
(* local reader's text and no OCR result; an Arabic result carries the OCR  *)
(* backend's text when the backend is configured and answers; and when the  *)
(* backend is absent or fails the text is the local reader's; on the quick  *)
(* path and on the legacy path alike.                                       *)
C23_BackendByLanguage ==
    NonScanned
    => /\ detection.language = "english" => FromLocalReader
       /\ (detection.language = "arabic" /\ azure_answers(input.services))
          => /\ detection.text \in {Doc.azure_full, Doc.azure_sample}
             /\ detection.azure_result
       /\ ~azure_answers(input.services) => FromLocalReader

(* C23 as amended: for a document that is not scanned, the quick path       *)
(* returns the local reader's full text and no OCR result for English, the  *)
(* OCR backend's full text and result for Arabic when the backend is        *)
(* configured and answers, and the local reader's full text otherwise; the  *)
(* legacy path returns the OCR backend's sample and result whenever the     *)
(* backend is configured and answers with a text, for English as for        *)
(* Arabic, and the local reader's sample otherwise.                         *)
C23_BackendByPath ==
    NonScanned
    => IF Called("fasttext") /\ ~LegacyRead
          THEN IF detection.language = "arabic"
                     /\ azure_answers(input.services)
                  THEN /\ detection.text = Doc.azure_full
                       /\ detection.azure_result
                  ELSE /\ detection.text = Doc.pymupdf_full
                       /\ ~detection.azure_result
          ELSE IF azure_answers(input.services) /\ Doc.azure_sample # <<>>
                  THEN /\ detection.text = Doc.azure_sample
                       /\ detection.azure_result
                  ELSE /\ detection.text = Doc.pymupdf_sample
                       /\ ~detection.azure_result

(* the legacy detection returned the OCR backend's text and result for an   *)
(* English document                                                         *)
C23_Witness ==
    /\ NonScanned /\ input.doc = "english_plain"
    /\ ~input.services.use_fasttext
    /\ detection.language = "english"
    /\ detection.azure_result
    /\ detection.text = Doc.azure_sample

----------------------------------------------------------------------------
(* Properties of the two TOC layouts (SpecParse)                            *)

(* the three parses of the input are done, and the number is a page number  *)
LayoutsParsed ==
    /\ pc = "same_line_parsed"
    /\ MIN_PAGE <= DecimalValue(input.digits)
    /\ DecimalValue(input.digits) <= PAGE_END_SENTINEL

(* the entries read from the same-line segment                              *)
SameLineEntries == parsed.same_line[1].entries

(* C24: _parse_toc_entries yields the entry (title, n) for a same-line      *)
(* entry (title, optional leader dots, page number n on the same line) as   *)
(* well as for a split-line pair (title line, then digit-only line n),      *)
(* with 1 <= n <= 9999.                                                     *)
C24_BothLayoutsParsed ==
    LayoutsParsed
    => LET entry == [title |-> SampleTitle,
                     page |-> DecimalValue(input.digits)]
       IN /\ parsed.lines = <<entry>>
          /\ \E k \in 1..Len(SameLineEntries) : SameLineEntries[k] = entry

(* C24 as amended: _parse_toc_entries yields the entry (title, n) for a     *)
(* split-line pair with 1 <= n <= 9999; a line that carries its title and   *)
(* its page number together is not a layout it reads, and a segment made of *)
(* such lines yields no entry.                                              *)
C24_SplitLinesOnly ==
    LayoutsParsed
    => /\ parsed.lines = <<[title |-> SampleTitle,
                            page |-> DecimalValue(input.digits)]>>
       /\ SameLineEntries = <<>>

(* "muqaddima .... 12" and "khatima .... 12" were parsed to nothing while   *)
(* the split-line pair gave page 12                                         *)
C24_Witness ==
    /\ LayoutsParsed /\ input.digits = <<1, 2>>
    /\ parsed.same_line[1].leader # <<SPACE>>
    /\ parsed.lines = <<[title |-> SampleTitle, page |-> 12]>>
    /\ SameLineEntries = <<>>

----------------------------------------------------------------------------
(* Properties of the table window (SpecRanges)                              *)

Collected == pc = "collected" /\ input.kind = "table_window"

(* the pages of the collected tables                                        *)
CollectedPages == {cleaned[i].page : i \in 1..Len(cleaned)}

(* the pages from first on that hold a table, up to the first page without  *)
(* one, within the document and within MAX_TABLE_PAGES pages of the hint    *)
TableRun(first) ==
    {p \in first..Min(input.total_pages,
                      input.page_number + MAX_TABLE_PAGES - 1) :
        \A q \in first..p : q \in input.table_pages}

(* the tables of the input on a set of pages, in their order                *)
TablesOf(pages) == SelectSeq(input.tables, LAMBDA t : t.page \in pages)

(* C25: the tables used are those on the hinted page and on the consecutive *)
(* pages after it up to the first page without a table; a table after a     *)
(* page without one is never used, also when that page is the hinted page   *)
(* itself; no page beyond the document or beyond 20 pages from the hint is  *)
(* examined.                                                                *)
C25_WindowFromHint ==
    Collected => cleaned = TablesOf(TableRun(input.page_number))

(* C25 as amended: the tables used are those on the hinted page and on the  *)
(* consecutive pages after it up to the first page without a table; when    *)
(* the hinted page itself holds no table the run starts on the page after   *)
(* it; past the start of the run a table after a page without one is never  *)
(* used; no page beyond the document or beyond 20 pages from the hint is    *)
(* examined.                                                                *)
C25_WindowFromHintOrNext ==
    Collected
    => /\ cleaned = TablesOf(
              IF input.page_number \in input.table_pages
                 THEN TableRun(input.page_number)
                 ELSE TableRun(input.page_number + 1))
       /\ \A p \in CollectedPages :
             /\ p <= input.total_pages
             /\ p >= input.page_number
             /\ p < input.page_number + MAX_TABLE_PAGES

(* hint 1 on a document with tables on pages 2 and 3 only: both are used    *)
C25_Witness ==
    /\ Collected /\ input.page_number = 1 /\ input.table_pages = {2, 3}
    /\ input.total_pages = MaxTablePages
    /\ CollectedPages = {2, 3}

----------------------------------------------------------------------------
(* Properties of the sections made from headings (SpecRanges)               *)

(* TocGenerator.generate returned sections made from headings               *)
FromHeadings ==
    /\ pc = "returned" /\ input.kind = "headings"
    /\ report.bookmarks_found

(* the paragraphs of the input that pass the heading filters                *)
KeptParagraphs == SelectSeq(input.paragraphs, HeadingKept)

(* hs holds the elements of ps, each as often as ps does                    *)
SameElements(hs, ps) ==
    /\ Len(hs) = Len(ps)
    /\ \A h \in {ps[i] : i \in 1..Len(ps)} :
          Cardinality({i \in 1..Len(hs) : hs[i] = h})
             = Cardinality({i \in 1..Len(ps) : ps[i] = h})

----------------------------------------------------------------------------
(* Properties of the page chunker (SpecChunks)                              *)

(* chunk_by_pages made the report                                           *)
PageBased == Chunked /\ report.strategy = "page-based"

(* the pages_per_chunk chunk_by_pages was called with: the default of the   *)
(* pages strategy, or the one smart_chunk chose                             *)
PagesPerChunk ==
    IF input.kind = "smart"
          /\ \A i \in 1..Len(input.pages) : ~input.pages[i].has_text
       THEN IMAGE_PAGES_PER_CHUNK
       ELSE FALLBACK_PAGES_PER_CHUNK

(* the indices in pages of the pages chunk i (from 0) holds                 *)
PagesOfChunk(i) ==
    (i * PagesPerChunk + 1)
       ..Min((i + 1) * PagesPerChunk, Len(input.pages))

(* C27: chunk_by_pages partitions its input: ceil(len(pages)/k) chunks,     *)
(* chunk i (from 0) holds pages[i*k .. (i+1)*k - 1], so every page is in    *)
(* exactly one chunk; chunk_index counts 0, 1, 2, ... and page_start and    *)
(* page_end are the page numbers of the chunk's first and last page.        *)
C27_PagesPartitioned ==
    PageBased
    => LET n == Len(input.pages)
           k == PagesPerChunk
       IN /\ Len(report.chunks) = (n + k - 1) \div k
          /\ report.total_chunks = Len(report.chunks)
          /\ \A c \in 1..Len(report.chunks) :
                LET chunk == report.chunks[c]
                    held == PagesOfChunk(c - 1)
                    first == CHOOSE p \in held : \A q \in held : p <= q
                    last == CHOOSE p \in held : \A q \in held : q <= p
                IN /\ held # {}
                   /\ chunk.chunk_index = c - 1
                   /\ chunk.content
                         = join_page_content(SubSeq(input.pages, first, last))
                   /\ chunk.page_start = input.pages[first].page
                   /\ chunk.page_end = input.pages[last].page
          /\ \A p \in 1..n :
                Cardinality({c \in 1..Len(report.chunks) :
                                p \in PagesOfChunk(c - 1)}) = 1

(* eleven pages at five per chunk: pages 1-5, 6-10 and 11                   *)
C27_Witness ==
    /\ PageBased /\ input.kind = "pages" /\ Len(input.pages) = 11
    /\ [c \in 1..Len(report.chunks) |->
          <<report.chunks[c].chunk_index, report.chunks[c].page_start,
            report.chunks[c].page_end>>]
          = <<<<0, 1, 5>>, <<1, 6, 10>>, <<2, 11, 11>>>>

----------------------------------------------------------------------------
(* SpecUploads: POST /upload requests on one event loop. upload is a        *)
(* coroutine: a request runs alone from one await to the next, and another  *)
(* request may run while it waits at an await. pc maps each request to the  *)
(* await it waits at; input gives each request's form (a cover image or     *)
(* none) and whether the blob storage raises on its PDF; cleaned is the     *)
(* books table (the requests in the order of their ids); detection holds    *)
(* each request's local book_id (0 before it is assigned); report is the    *)
(* module-level cache, each field naming the request whose data it holds (0 *)
(* for None) and book_id holding the id; calls are the responses sent.      *)

MaxUploads == 2
MaxExports == 1
Requests == 1..MaxUploads

(* upload.py, the module-level _last_* variables                            *)
NoCache ==
    [book_id |-> 0, report |-> 0, filename |-> 0, pdf_bytes |-> 0,
     language |-> 0, extracted_text |-> 0, book_metadata |-> 0,
     sections_report |-> 0]

(* the cache assignments at the end of upload; _last_book_id is not among   *)
(* them                                                                     *)
cache_for_exports(cache, r) ==
    [book_id |-> cache.book_id, report |-> r, filename |-> r,
     pdf_bytes |-> r, language |-> r, extracted_text |-> r,
     book_metadata |-> r, sections_report |-> r]

(* the JSON response of upload reads the global _last_book_id               *)
UploadResponse(r, cache) ==
    [type |-> "upload", request |-> r, book_id |-> cache.book_id]

UploadsInit ==
    /\ pc = [r \in Requests |-> "read_head"]
    /\ input \in [Requests -> [cover_image : BOOLEAN,
                               storage_raises : BOOLEAN]]
    /\ report = NoCache
    /\ cleaned = <<>>
    /\ detection = [r \in Requests |-> 0]
    /\ calls = <<>>
    /\ parsed = NoEntries /\ detector = NewDetectors /\ first_run = NoReport

(* head = await file.read(5)                                                *)
UploadReadHead(r) ==
    /\ pc[r] = "read_head"
    /\ pc' = [pc EXCEPT ![r] = "seek"]
    /\ UNCHANGED <<input, parsed, cleaned, report, detection, detector,
                   calls, first_run>>

(* await file.seek(0), then validate_signature                              *)
UploadSeek(r) ==
    /\ pc[r] = "seek"
    /\ pc' = [pc EXCEPT ![r] = "read_bytes"]
    /\ UNCHANGED <<input, parsed, cleaned, report, detection, detector,
                   calls, first_run>>

(* pdf_bytes = await file.read(), then without an await: detection,         *)
(* analysis, extraction, the book and its sections committed,               *)
(* _last_book_id = book_id, save_pdf; then the request waits for the cover  *)
(* image, or caches the rest and returns, or answers 500 when the storage   *)
(* raised                                                                   *)
UploadReadBytes(r) ==
    /\ pc[r] = "read_bytes"
    /\ LET book_id == Len(cleaned) + 1
           with_id == [report EXCEPT !.book_id = book_id]
       IN /\ cleaned' = Append(cleaned, r)
          /\ detection' = [detection EXCEPT ![r] = book_id]
          /\ IF input[r].storage_raises
                THEN /\ report' = with_id
                     /\ pc' = [pc EXCEPT ![r] = "http_500"]
                     /\ calls' = calls
             ELSE IF input[r].cover_image
                THEN /\ report' = with_id
                     /\ pc' = [pc EXCEPT ![r] = "read_cover"]
                     /\ calls' = calls
             ELSE /\ report' = cache_for_exports(with_id, r)
                  /\ pc' = [pc EXCEPT ![r] = "returned"]
                  /\ calls' = Append(calls, UploadResponse(r, with_id))
    /\ UNCHANGED <<input, parsed, detector, first_run>>

(* cover_bytes = await cover_image.read(), then save_cover_image, the URLs, *)
(* the cache assignments and the response                                   *)
UploadReadCover(r) ==
    /\ pc[r] = "read_cover"
    /\ report' = cache_for_exports(report, r)
    /\ pc' = [pc EXCEPT ![r] = "returned"]
    /\ calls' = Append(calls, UploadResponse(r, report))
    /\ UNCHANGED <<input, parsed, cleaned, detection, detector, first_run>>

(* GET /export/sections.jsonl and _generate_sections_jsonl: the metadata    *)
(* line carries _last_book_id, the section lines _last_sections_report      *)
ExportSections ==
    /\ report.pdf_bytes # 0 /\ report.filename # 0
    /\ report.book_metadata # 0 /\ report.sections_report # 0
    /\ Cardinality({i \in 1..Len(calls) : calls[i].type = "export"})
          < MaxExports
    /\ calls' = Append(calls, [type |-> "export", request |-> 0,
                               book_id |-> report.book_id,
                               sections_of |-> report.sections_report])
    /\ UNCHANGED <<pc, input, parsed, cleaned, report, detection, detector,
                   first_run>>

UploadsNext ==
    \/ \E r \in Requests : UploadReadHead(r)
    \/ \E r \in Requests : UploadSeek(r)
    \/ \E r \in Requests : UploadReadBytes(r)
    \/ \E r \in Requests : UploadReadCover(r)
    \/ ExportSections

SpecUploads == UploadsInit /\ [][UploadsNext]_vars

(* the cache holds the data of request r under the id of r's book           *)
CacheOf(r) ==
    /\ detection[r] # 0
    /\ report = cache_for_exports([book_id |-> detection[r]], r)

(* C28: after any interleaving of concurrent uploads the module-level cache *)
(* describes a single upload: _last_book_id is the id of the book whose     *)
(* data the other _last_* fields hold, so a following export never puts one *)
(* book's sections under another book's id.                                 *)
C28_CacheDescribesOneUpload ==
    /\ report # NoCache => \E r \in Requests : CacheOf(r)
    /\ \A i \in 1..Len(calls) :
          calls[i].type = "export"
          => calls[i].book_id = detection[calls[i].sections_of]

----------------------------------------------------------------------------
(* Properties of the chunk ids (SpecChunks)                                 *)

(* C29: within one ChunkingReport of chunk_by_sections or chunk_by_pages    *)
(* the chunk_id values are pairwise distinct, for any section list an       *)
(* extraction strategy can produce, pattern-derived sections included.      *)
C29_ChunkIdsDistinct ==
    Chunked
    => \A i, j \in 1..Len(report.chunks) :
          report.chunks[i].chunk_id = report.chunks[j].chunk_id => i = j

----------------------------------------------------------------------------
(* Properties of the text detect returns (Spec)                             *)

(* C30: on every detection path (scanned, quick, legacy with or without the *)
(* OCR backend) the text detect returns, which the section extraction and   *)
(* the per-page split use, holds the text of every page of the document,    *)
(* not only of the pages sampled for the detection.                         *)
C30_ReturnsFullText ==
    (DetectReturned /\ Doc.openable)
    => detection.text \in {Doc.azure_full, Doc.pymupdf_full}

====
